---- MODULE Spec2Model ----
(***************************************************************************)
(* Model of the mood-movie-recommender core:                               *)
(*   - src/src/recommender/engine.py     MoodRecommender (ranking, journey)*)
(*   - src/src/emotion_engine/*.py       profile synthesis                 *)
(*   - src/src/database/models.py        bulk_insert_movies                *)
(*   - src/src/data_collection/tmdb_collector.py   _make_request           *)
(*                                                                         *)
(* Numbers.  The program computes with Python floats.  The model computes  *)
(* the same expressions exactly, in fixed point:                           *)
(*   - intensity_score / comfort_score / catharsis_score are held in       *)
(*     tenths (5.0 is 50), as the profiler rounds them to one decimal;     *)
(*   - a match_score is held in units of 1/Unit (1.0 is Unit);             *)
(*   - a combined emotion score is held in thousandths (rounded to 3       *)
(*     decimals by the profiler), raw signal scores in units of 1/SUnit.   *)
(* Float rounding error below these units is not modelled.                 *)
(*                                                                         *)
(* Positions.  pandas row labels run 0..len-1; the model's idx runs        *)
(* 1..Len(movies_df).                                                      *)
(***************************************************************************)
EXTENDS Integers, Sequences, FiniteSets, TLC

VARIABLES
    movies_df,   \* MoodRecommender.movies_df: the loaded catalog, a sequence of rows
    call,        \* the recommender call being served (op and arguments), or NoCall
    result,      \* the list the call returned
    outcome,     \* "ok" when the call returned a list, "error" when it raised
    synth,       \* the arguments of a create_emotion_profile call
    profile,     \* what that call produced: the EmotionProfile, or the exception
    rescaled,    \* what a second call produced, both weights multiplied by one factor
    db,          \* a bulk_insert_movies call: the movies table, the session, the loop
    http,        \* a TMDBCollector._make_request call: the attempts made and its result
    signal       \* a call of the signal mappers: the input and what they returned

vars == <<movies_df, call, result, outcome, synth, profile, rescaled, db, http, signal>>
rec_vars == <<movies_df, call, result, outcome>>
syn_vars == <<synth, profile, rescaled>>
ext_vars == <<db, http, signal>>

(***************************************************************************)
(* Bounds of the model.                                                    *)
(***************************************************************************)
MaxCatalog == 3     \* rows in the catalog
MaxN == 3           \* largest n_recommendations asked for
MaxJourney == 4     \* largest n_movies asked for
MaxTargets == 2     \* longest target_emotions list of recommend_by_emotions
MaxGenres == 2      \* longest genre list handed to create_emotion_profile
MaxLabels == 2      \* most labels in one classifier response
MaxRecords == 3     \* longest movies_data list handed to bulk_insert_movies
MaxRetries == 3     \* largest `retries` of _make_request (its default)

(***************************************************************************)
(* Fixed point.                                                            *)
(***************************************************************************)
Unit == 3 * 1000    \* match_score 1.0
SUnit == 8 * 1000   \* raw signal score 1.0 (classifier and genre scores)

Abs(x) == IF x < 0 THEN -x ELSE x
Max2(a, b) == IF b > a THEN b ELSE a      \* Python max(a, b): keeps a unless b > a
Min2(a, b) == IF b < a THEN b ELSE a      \* Python min(a, b): keeps a unless b < a

InSeq(x, s) == \E i \in 1..Len(s) : s[i] = x      \* Python `x in list`

\* Python s[:n]: the first n entries for n >= 0, all but the last -n for n < 0.
SliceTo(s, n) ==
    IF n >= 0 THEN SubSeq(s, 1, Min2(n, Len(s)))
    ELSE SubSeq(s, 1, Max2(0, Len(s) + n))

\* dict.get(key, default)
DictGet(d, k, default) == IF k \in DOMAIN d THEN d[k] ELSE default

(***************************************************************************)
(* engine.py: the static tables.                                           *)
(***************************************************************************)
EMOTION_CATEGORIES ==
    << "cathartic_sadness", "thrilling_tension", "mind_blown", "pure_joy",
       "bittersweet_hope", "righteous_anger", "cozy_comfort", "controlled_fear",
       "intellectual_stimulation", "romantic_warmth", "triumphant_inspired",
       "awe_wonder" >>

EmptyDict == [k \in {} |-> "none"]

MOOD_PRESETS ==
    ("stressed" :> (("intensity" :> "low") @@ ("comfort" :> "high"))) @@
    ("sad" :> (("primary" :> "cathartic_sadness") @@ ("comfort" :> "medium"))) @@
    ("bored" :> (("intensity" :> "high") @@ ("primary" :> "thrilling_tension"))) @@
    ("anxious" :> (("comfort" :> "high") @@ ("intensity" :> "low"))) @@
    ("happy" :> (("primary" :> "pure_joy") @@ ("comfort" :> "high"))) @@
    ("lonely" :> (("primary" :> "romantic_warmth") @@ ("comfort" :> "high"))) @@
    ("angry" :> (("primary" :> "righteous_anger") @@ ("intensity" :> "high"))) @@
    ("tired" :> (("comfort" :> "high") @@ ("intensity" :> "low"))) @@
    ("curious" :> ("primary" :> "intellectual_stimulation")) @@
    ("romantic" :> ("primary" :> "romantic_warmth")) @@
    ("adventurous" :> (("primary" :> "awe_wonder") @@ ("intensity" :> "high"))) @@
    ("reflective" :> (("primary" :> "bittersweet_hope") @@ ("intensity" :> "low")))

DESIRED_FEELINGS ==
    ("feel-good" :> <<"pure_joy", "cozy_comfort", "romantic_warmth">>) @@
    ("thrilled" :> <<"thrilling_tension", "controlled_fear", "mind_blown">>) @@
    ("inspired" :> <<"triumphant_inspired", "awe_wonder", "bittersweet_hope">>) @@
    ("cry" :> <<"cathartic_sadness", "bittersweet_hope">>) @@
    ("laugh" :> <<"pure_joy", "cozy_comfort">>) @@
    ("think" :> <<"intellectual_stimulation", "mind_blown">>) @@
    ("scared" :> <<"controlled_fear", "thrilling_tension">>) @@
    ("romantic" :> <<"romantic_warmth", "bittersweet_hope">>) @@
    ("empowered" :> <<"triumphant_inspired", "righteous_anger">>) @@
    ("relaxed" :> <<"cozy_comfort", "pure_joy">>) @@
    ("amazed" :> <<"awe_wonder", "mind_blown">>)

\* str.lower() on the strings the model passes in: the mixed-case spellings are
\* folded, every other string of the vocabulary is already lower case.
Lower(s) ==
    CASE s = "Feel-Good" -> "feel-good"
      [] s = "STRESSED" -> "stressed"
      [] OTHER -> s

\* e.replace('_', ' ') on a category identifier
Spaced(e) ==
    CASE e = "cathartic_sadness" -> "cathartic sadness"
      [] e = "thrilling_tension" -> "thrilling tension"
      [] e = "mind_blown" -> "mind blown"
      [] e = "pure_joy" -> "pure joy"
      [] e = "bittersweet_hope" -> "bittersweet hope"
      [] e = "righteous_anger" -> "righteous anger"
      [] e = "cozy_comfort" -> "cozy comfort"
      [] e = "controlled_fear" -> "controlled fear"
      [] e = "intellectual_stimulation" -> "intellectual stimulation"
      [] e = "romantic_warmth" -> "romantic warmth"
      [] e = "triumphant_inspired" -> "triumphant inspired"
      [] e = "awe_wonder" -> "awe wonder"
      [] OTHER -> e

(***************************************************************************)
(* Inputs the model draws from.                                            *)
(***************************************************************************)
\* Catalog rows: title, dominant_emotions, intensity_score and comfort_score
\* (tenths).  The display-only columns (overview, genres, poster_url) are
\* copied through by the code and are left out.
MovieRow(t, d, i, c) ==
    [title |-> t, dominant_emotions |-> d, intensity_score |-> i, comfort_score |-> c]

MoviePool ==
    { MovieRow("Amelie", <<"pure_joy", "cozy_comfort", "romantic_warmth">>, 50, 100),
      MovieRow("The Dark Knight",
               <<"thrilling_tension", "righteous_anger", "triumphant_inspired">>, 86, 14),
      \* the low-signal profile of an item without text and genres
      MovieRow("Untitled", <<>>, 15, 20),
      \* a row whose intensity lies outside 0..10
      MovieRow("Overdrive", <<"controlled_fear", "pure_joy">>, 124, 0) }

RECURSIVE SeqsUpTo(_, _)
SeqsUpTo(S, n) ==
    IF n = 0 THEN { <<>> }
    ELSE LET shorter == SeqsUpTo(S, n - 1)
         IN  shorter \cup { Append(s, x) : s \in { t \in shorter : Len(t) = n - 1 }, x \in S }

Catalogs == SeqsUpTo(MoviePool, MaxCatalog)

\* current_mood strings: the preset keys ("anxious" and "tired" carry the very
\* preset of "stressed" and stand behind it), an unknown mood ("neutral" is the
\* one get_mood_journey itself passes) and a mixed-case spelling.
Moods == (DOMAIN MOOD_PRESETS \ { "anxious", "tired" }) \cup { "neutral", "STRESSED" }
\* desired_feeling strings: the table keys ("relaxed" lists the two categories
\* of "laugh" and stands behind it), an unknown feeling, a mixed-case spelling.
Feelings == (DOMAIN DESIRED_FEELINGS \ { "relaxed" }) \cup { "nostalgic", "Feel-Good" }

NRange == -1..MaxN
JourneyRange == -1..MaxJourney

TargetPool == { "pure_joy", "thrilling_tension" }
TargetLists == SeqsUpTo(TargetPool, MaxTargets)

MinIntensities == { 0, 40 }
MaxIntensities == { 60, 100 }
MinComforts == { 0, 50 }

(***************************************************************************)
(* engine.py: MoodRecommender                                              *)
(***************************************************************************)
\* Mutant of IntensityMatch: the "high" preference scored like "medium".
IntensityMatchNoHigh(movie_intensity, desired_intensity) ==
    IF desired_intensity = "low" THEN Max2(0, 100 - movie_intensity)
    ELSE 100 - 2 * Abs(movie_intensity - 50)

\* _calculate_match_score, step 2: intensity_score in hundredths.
IntensityMatch(movie_intensity, desired_intensity) ==
    IF desired_intensity = "low" THEN Max2(0, 100 - movie_intensity)
    ELSE IF desired_intensity = "high" THEN movie_intensity
    ELSE 100 - 2 * Abs(movie_intensity - 50)

\* Mutant of ComfortMatch: the "high" preference scored like "low".
ComfortMatchHighAsLow(movie_comfort, desired_comfort) ==
    IF desired_comfort \in { "high", "low" } THEN Max2(0, 100 - movie_comfort)
    ELSE 100 - 2 * Abs(movie_comfort - 50)

\* _calculate_match_score, step 3: comfort_score in hundredths.
ComfortMatch(movie_comfort, desired_comfort) ==
    IF desired_comfort = "high" THEN movie_comfort
    ELSE IF desired_comfort = "low" THEN Max2(0, 100 - movie_comfort)
    ELSE 100 - 2 * Abs(movie_comfort - 50)

\* MoodRecommender._calculate_match_score, in units of 1/Unit.
\* emotion_score * 0.4 = (Unit * 4 / 10) * emotion_match / len(desired_emotions)
CalculateMatchScore(movie_row, mood_params, desired_emotions) ==
    LET movie_emotions == movie_row.dominant_emotions
        emotion_match ==
            Cardinality({ k \in 1..Len(desired_emotions) :
                            InSeq(desired_emotions[k], movie_emotions) })
        emotion_part ==
            IF Len(desired_emotions) > 0
            THEN (4 * (Unit \div 10) * emotion_match) \div Len(desired_emotions)
            ELSE 0
        intensity_score ==
            IntensityMatch(movie_row.intensity_score, DictGet(mood_params, "intensity", "medium"))
        comfort_score ==
            ComfortMatch(movie_row.comfort_score, DictGet(mood_params, "comfort", "medium"))
        \* x/100 * 0.3 * Unit = x * 9 for Unit = 3000
        weighted ==
            emotion_part + (3 * (Unit \div 10) * intensity_score) \div 100
                         + (3 * (Unit \div 10) * comfort_score) \div 100
        bonus ==
            IF "primary" \in DOMAIN mood_params /\ InSeq(mood_params["primary"], movie_emotions)
            THEN Unit \div 10 ELSE 0
    IN  Min2(Unit, weighted + bonus)

\* Mutant of SortByScoreDesc: an unstable sort, entries with equal keys reversed.
RECURSIVE InsertDescUnstable(_, _)
InsertDescUnstable(sorted, e) ==
    IF sorted = <<>> THEN <<e>>
    ELSE IF sorted[Len(sorted)][2] > e[2] THEN Append(sorted, e)
    ELSE Append(InsertDescUnstable(SubSeq(sorted, 1, Len(sorted) - 1), e), sorted[Len(sorted)])

RECURSIVE SortUnstableFrom(_, _, _)
SortUnstableFrom(scores, k, acc) ==
    IF k > Len(scores) THEN acc
    ELSE SortUnstableFrom(scores, k + 1, InsertDescUnstable(acc, scores[k]))

SortByScoreDescUnstable(scores) == SortUnstableFrom(scores, 1, <<>>)

\* list.sort(key=lambda x: x[1], reverse=True): a stable sort, so entries with equal
\* keys keep their order.  Written as insertion from the left: an entry goes
\* after every entry whose key is >= its own.
RECURSIVE InsertDesc(_, _)
InsertDesc(sorted, e) ==
    IF sorted = <<>> THEN <<e>>
    ELSE IF sorted[Len(sorted)][2] >= e[2] THEN Append(sorted, e)
    ELSE Append(InsertDesc(SubSeq(sorted, 1, Len(sorted) - 1), e), sorted[Len(sorted)])

RECURSIVE SortDescFrom(_, _, _)
SortDescFrom(scores, k, acc) ==
    IF k > Len(scores) THEN acc
    ELSE SortDescFrom(scores, k + 1, InsertDesc(acc, scores[k]))

SortByScoreDesc(scores) == SortDescFrom(scores, 1, <<>>)

\* MoodRecommender._generate_explanation: the template picked by the
\* desired_feeling string as given, and the first two dominant emotions.
GenerateExplanation(movie_row, current_mood, desired_feeling) ==
    LET dominant == movie_row.dominant_emotions
        first2 == SubSeq(dominant, 1, Min2(2, Len(dominant)))
        emotions_text == [k \in 1..Len(first2) |-> Spaced(first2[k])]
        template ==
            IF desired_feeling \in { "feel-good", "thrilled", "cry", "inspired", "think" }
            THEN desired_feeling ELSE "generic"
    IN  <<template, emotions_text>>

\* MovieRecommendation(...); idx is the catalog position the entry was built from.
MovieRecommendation(idx, row, score, explanation) ==
    [ idx |-> idx,
      title |-> row.title,
      dominant_emotions |-> row.dominant_emotions,
      intensity_score |-> row.intensity_score,
      comfort_score |-> row.comfort_score,
      match_score |-> score,
      explanation |-> explanation ]

\* Mutant of DefaultDesiredEmotions: the targets of "feel-good".
DefaultDesiredEmotionsFeelGood == <<"pure_joy", "cozy_comfort", "romantic_warmth">>

\* The desired_emotions of recommend_by_mood (lines 142-146).
DefaultDesiredEmotions == <<"pure_joy", "cozy_comfort">>

\* Mutant of ResolveDesiredEmotions: a mood name targets its primary emotion.
ResolveDesiredEmotionsMoodPrimary(desired_feeling) ==
    LET desired_emotions == DictGet(DESIRED_FEELINGS, Lower(desired_feeling), <<>>)
        mood_params == DictGet(MOOD_PRESETS, Lower(desired_feeling), EmptyDict)
    IN  IF desired_emotions # <<>> THEN desired_emotions
        ELSE IF "primary" \in DOMAIN mood_params THEN <<mood_params["primary"]>>
        ELSE DefaultDesiredEmotions

ResolveDesiredEmotions(desired_feeling) ==
    LET desired_emotions == DictGet(DESIRED_FEELINGS, Lower(desired_feeling), <<>>)
    IN  IF desired_emotions = <<>> THEN DefaultDesiredEmotions ELSE desired_emotions

ResolveMoodParams(current_mood) == DictGet(MOOD_PRESETS, Lower(current_mood), EmptyDict)

\* Mutant of TopScores: one entry too few.
TopScoresOffByOne(sorted, n) == SliceTo(sorted, n - 1)

\* The n the list of scores is cut to (scores[:n_recommendations]).
TopScores(sorted, n) == SliceTo(sorted, n)

\* MoodRecommender.recommend_by_mood
RecommendByMoodList(df, current_mood, desired_feeling, n_recommendations) ==
    LET mood_params == ResolveMoodParams(current_mood)
        desired_emotions == ResolveDesiredEmotions(desired_feeling)
        scores == [i \in 1..Len(df) |->
                      <<i, CalculateMatchScore(df[i], mood_params, desired_emotions)>>]
        top == TopScores(SortByScoreDesc(scores), n_recommendations)
    IN  [k \in 1..Len(top) |->
            MovieRecommendation(top[k][1], df[top[k][1]], top[k][2],
                GenerateExplanation(df[top[k][1]], current_mood, desired_feeling))]

\* Mutant of FilterRows: max_intensity ignored.
FilterRowsNoMax(df, min_intensity, max_intensity, min_comfort) ==
    { i \in 1..Len(df) :
        /\ df[i].intensity_score >= min_intensity
        /\ df[i].comfort_score >= min_comfort }

\* The rows recommend_by_emotions keeps (lines 295-299), as catalog positions.
FilterRows(df, min_intensity, max_intensity, min_comfort) ==
    { i \in 1..Len(df) :
        /\ df[i].intensity_score >= min_intensity
        /\ df[i].intensity_score <= max_intensity
        /\ df[i].comfort_score >= min_comfort }

\* The score of one row in recommend_by_emotions (lines 309-310), in 1/Unit.
EmotionsScore(movie_row, target_emotions) ==
    LET match_count ==
            Cardinality({ k \in 1..Len(target_emotions) :
                            InSeq(target_emotions[k], movie_row.dominant_emotions) })
    IN  IF Len(target_emotions) > 0
        THEN (Unit * match_count) \div Len(target_emotions)
        ELSE 0

\* The positions of a set of rows in catalog order (df.iterrows() over the filtered frame).
RECURSIVE InOrder(_, _, _)
InOrder(rows, i, last) ==
    IF i > last THEN <<>>
    ELSE IF i \in rows THEN <<i>> \o InOrder(rows, i + 1, last)
    ELSE InOrder(rows, i + 1, last)

\* MoodRecommender.recommend_by_emotions
RecommendByEmotionsList(df, target_emotions, min_intensity, max_intensity, min_comfort, n) ==
    LET n_recommendations == n
        kept == InOrder(FilterRows(df, min_intensity, max_intensity, min_comfort), 1, Len(df))
        scores == [k \in 1..Len(kept) |-> <<kept[k], EmotionsScore(df[kept[k]], target_emotions)>>]
        top == TopScores(SortByScoreDesc(scores), n_recommendations)
    IN  [k \in 1..Len(top) |->
            MovieRecommendation(top[k][1], df[top[k][1]], top[k][2],
                <<"matches", (top[k][2] * 100) \div Unit>>)]

\* Mutant of CutJourney: the assembled journey returned uncut.
CutJourneyNoCut(journey, n_movies) == journey

\* The cut of the assembled journey (journey[:n_movies]).
CutJourney(journey, n_movies) == SliceTo(journey, n_movies)

\* Mutant of GetMoodJourneyList: a row already in the journey is not added again.
GetMoodJourneyListNoRepeat(df, start_mood, end_mood, n_movies) ==
    LET first_recs == RecommendByMoodList(df, start_mood, start_mood, 1)
        j1 == IF first_recs # <<>> THEN <<first_recs[1]>> ELSE <<>>
        fresh(j, recs) == SelectSeq(recs, LAMBDA r : \A k \in 1..Len(j) : j[k].idx # r.idx)
        j2 == IF n_movies >= 3
              THEN j1 \o fresh(j1, RecommendByMoodList(df, start_mood, end_mood, n_movies - 2))
              ELSE j1
        final_recs == RecommendByMoodList(df, "neutral", end_mood, 1)
        j3 == j2 \o fresh(j2, final_recs)
    IN  CutJourney(j3, n_movies)

\* MoodRecommender.get_mood_journey
GetMoodJourneyList(df, start_mood, end_mood, n_movies) ==
    LET first_recs == RecommendByMoodList(df, start_mood, start_mood, 1)
        j1 == IF first_recs # <<>> THEN <<first_recs[1]>> ELSE <<>>
        j2 == IF n_movies >= 3
              THEN j1 \o RecommendByMoodList(df, start_mood, end_mood, n_movies - 2)
              ELSE j1
        final_recs == RecommendByMoodList(df, "neutral", end_mood, 1)
        j3 == IF final_recs # <<>> THEN Append(j2, final_recs[1]) ELSE j2
    IN  CutJourney(j3, n_movies)

(***************************************************************************)
(* emotion_engine/classifier.py                                            *)
(***************************************************************************)
\* MODEL_TO_CATEGORY; "None" stands for Python's None.
MODEL_TO_CATEGORY ==
    ("joy" :> "pure_joy") @@ ("sadness" :> "cathartic_sadness") @@
    ("anger" :> "righteous_anger") @@ ("fear" :> "controlled_fear") @@
    ("surprise" :> "mind_blown") @@ ("disgust" :> "controlled_fear") @@
    ("neutral" :> "None") @@
    ("love" :> "romantic_warmth") @@ ("excitement" :> "thrilling_tension") @@
    ("admiration" :> "triumphant_inspired") @@ ("amusement" :> "pure_joy") @@
    ("gratitude" :> "bittersweet_hope") @@ ("optimism" :> "bittersweet_hope") @@
    ("relief" :> "cozy_comfort") @@ ("pride" :> "triumphant_inspired") @@
    ("curiosity" :> "intellectual_stimulation") @@ ("confusion" :> "mind_blown") @@
    ("nervousness" :> "thrilling_tension") @@ ("remorse" :> "cathartic_sadness") @@
    ("grief" :> "cathartic_sadness") @@ ("disappointment" :> "cathartic_sadness") @@
    ("embarrassment" :> "cathartic_sadness") @@ ("realization" :> "mind_blown") @@
    ("approval" :> "cozy_comfort") @@ ("caring" :> "romantic_warmth") @@
    ("desire" :> "romantic_warmth") @@ ("annoyance" :> "righteous_anger") @@
    ("disapproval" :> "righteous_anger")

\* map_to_categories: the labels are visited in the order of the response (a
\* sequence of <<label, score>> with distinct, lower-case labels); a category
\* seen again keeps the larger score.
RECURSIVE MapFrom(_, _, _)
MapFrom(emotions, k, category_scores) ==
    IF k > Len(emotions) THEN category_scores
    ELSE LET category == DictGet(MODEL_TO_CATEGORY, emotions[k][1], "None")
             score == emotions[k][2]
         IN  IF category = "None" THEN MapFrom(emotions, k + 1, category_scores)
             ELSE IF category \in DOMAIN category_scores
             THEN MapFrom(emotions, k + 1,
                          [category_scores EXCEPT ![category] = Max2(category_scores[category], score)])
             ELSE MapFrom(emotions, k + 1, category_scores @@ (category :> score))

\* Mutant of MapToCategories: the scores stay keyed by the external labels.
MapToCategoriesKeepsLabels(emotions) ==
    [l \in { emotions[k][1] : k \in 1..Len(emotions) } |->
        emotions[CHOOSE k \in 1..Len(emotions) : emotions[k][1] = l][2]]

\* Mutant of MapToCategories: a category seen again takes the later score.
RECURSIVE MapFromLast(_, _, _)
MapFromLast(emotions, k, category_scores) ==
    IF k > Len(emotions) THEN category_scores
    ELSE LET category == DictGet(MODEL_TO_CATEGORY, emotions[k][1], "None")
             score == emotions[k][2]
         IN  IF category = "None" THEN MapFromLast(emotions, k + 1, category_scores)
             ELSE MapFromLast(emotions, k + 1,
                              (category :> score) @@ category_scores)

MapToCategoriesLast(emotions) == MapFromLast(emotions, 1, EmptyDict)

MapToCategories(emotions) == MapFrom(emotions, 1, EmptyDict)

\* classify_text: an empty text, or one shorter than 10 characters once stripped,
\* is not classified; an exception of the classifier (or of loading it) is caught
\* and gives the empty mapping.  A text is a record [len, stripped]; the
\* truncation to max_length only shortens what the classifier reads.
ClassifyText(text, response) ==
    IF text.len = 0 \/ text.stripped < 10 THEN <<>>
    ELSE IF response.kind \in { "raises", "fails to load" } THEN <<>>
    ELSE response.emotions

\* The invocations of the classifier one classify_text makes: none for a text it
\* does not classify, else one (lines 70-71 stand in no loop).
ClassifierCalls(text) == IF text.len = 0 \/ text.stripped < 10 THEN 0 ELSE 1

(***************************************************************************)
(* emotion_engine/genre_mapper.py                                          *)
(***************************************************************************)
\* GENRE_EMOTION_MAP, the scores in tenths.
GENRE_EMOTION_MAP ==
    ("action" :> (("thrilling_tension" :> 8) @@ ("triumphant_inspired" :> 6) @@
                  ("righteous_anger" :> 4) @@ ("awe_wonder" :> 3))) @@
    ("adventure" :> (("awe_wonder" :> 8) @@ ("thrilling_tension" :> 6) @@
                     ("triumphant_inspired" :> 5) @@ ("pure_joy" :> 4))) @@
    ("thriller" :> (("thrilling_tension" :> 9) @@ ("controlled_fear" :> 6) @@
                    ("mind_blown" :> 5) @@ ("intellectual_stimulation" :> 4))) @@
    ("drama" :> (("cathartic_sadness" :> 7) @@ ("bittersweet_hope" :> 6) @@
                 ("intellectual_stimulation" :> 4) @@ ("triumphant_inspired" :> 3))) @@
    ("romance" :> (("romantic_warmth" :> 9) @@ ("bittersweet_hope" :> 5) @@
                   ("cathartic_sadness" :> 3) @@ ("pure_joy" :> 4))) @@
    ("comedy" :> (("pure_joy" :> 9) @@ ("cozy_comfort" :> 5) @@ ("romantic_warmth" :> 3))) @@
    ("family" :> (("cozy_comfort" :> 8) @@ ("pure_joy" :> 7) @@
                  ("bittersweet_hope" :> 4) @@ ("romantic_warmth" :> 3))) @@
    ("animation" :> (("awe_wonder" :> 7) @@ ("pure_joy" :> 6) @@ ("cozy_comfort" :> 5))) @@
    ("horror" :> (("controlled_fear" :> 9) @@ ("thrilling_tension" :> 7) @@
                  ("cathartic_sadness" :> 2))) @@
    ("crime" :> (("thrilling_tension" :> 7) @@ ("righteous_anger" :> 6) @@
                 ("intellectual_stimulation" :> 5) @@ ("mind_blown" :> 4))) @@
    ("mystery" :> (("intellectual_stimulation" :> 8) @@ ("thrilling_tension" :> 6) @@
                   ("mind_blown" :> 7))) @@
    ("war" :> (("cathartic_sadness" :> 7) @@ ("righteous_anger" :> 6) @@
               ("triumphant_inspired" :> 5) @@ ("thrilling_tension" :> 5))) @@
    ("science fiction" :> (("awe_wonder" :> 8) @@ ("intellectual_stimulation" :> 7) @@
                           ("mind_blown" :> 6) @@ ("thrilling_tension" :> 4))) @@
    ("fantasy" :> (("awe_wonder" :> 8) @@ ("pure_joy" :> 5) @@
                   ("triumphant_inspired" :> 5) @@ ("romantic_warmth" :> 3))) @@
    ("documentary" :> (("intellectual_stimulation" :> 9) @@ ("mind_blown" :> 5) @@
                       ("awe_wonder" :> 4))) @@
    ("music" :> (("pure_joy" :> 7) @@ ("triumphant_inspired" :> 6) @@
                 ("romantic_warmth" :> 5))) @@
    ("history" :> (("intellectual_stimulation" :> 7) @@ ("bittersweet_hope" :> 5) @@
                   ("cathartic_sadness" :> 4))) @@
    ("western" :> (("righteous_anger" :> 6) @@ ("thrilling_tension" :> 5) @@
                   ("triumphant_inspired" :> 4)))

\* The genre string taken as it is, neither lowered nor stripped.
LowerStripNoLower(genre) == genre

\* genre.lower().strip() on the genre strings the model passes in.
LowerStrip(genre) ==
    CASE genre = "Horror" -> "horror"
      [] genre = "Thriller" -> "thriller"
      [] genre = " comedy " -> "comedy"
      [] genre = "Romance" -> "romance"
      [] genre = "War" -> "war"
      [] genre = "Noir" -> "noir"
      [] OTHER -> genre

\* The categories of the taxonomy in declaration order that are keys of a dict.
KeysInOrder(d) == SelectSeq(EMOTION_CATEGORIES, LAMBDA c : c \in DOMAIN d)

\* Mutant of MergeGenre: a category named again keeps the larger value.
MergeGenreMax(emotion_scores, genre_emotions) ==
    [c \in DOMAIN emotion_scores \cup DOMAIN genre_emotions |->
        IF c \notin DOMAIN genre_emotions THEN emotion_scores[c]
        ELSE IF c \in DOMAIN emotion_scores
        THEN Max2(emotion_scores[c], genre_emotions[c] * (SUnit \div 10))
        ELSE genre_emotions[c] * (SUnit \div 10)]

\* get_genre_emotions, in units of 1/SUnit: each known genre, in input order,
\* sets a category it names to its score or, when the category already has an
\* estimate e, to (e + score) / 2.
MergeGenre(emotion_scores, genre_emotions) ==
    [c \in DOMAIN emotion_scores \cup DOMAIN genre_emotions |->
        IF c \notin DOMAIN genre_emotions THEN emotion_scores[c]
        ELSE IF c \in DOMAIN emotion_scores
        THEN (emotion_scores[c] + genre_emotions[c] * (SUnit \div 10)) \div 2
        ELSE genre_emotions[c] * (SUnit \div 10)]

RECURSIVE GenreEmotionsFrom(_, _, _)
GenreEmotionsFrom(genres, k, emotion_scores) ==
    IF k > Len(genres) THEN emotion_scores
    ELSE LET genre_lower == LowerStrip(genres[k])
         IN  IF genre_lower \in DOMAIN GENRE_EMOTION_MAP
             THEN GenreEmotionsFrom(genres, k + 1,
                                    MergeGenre(emotion_scores, GENRE_EMOTION_MAP[genre_lower]))
             ELSE GenreEmotionsFrom(genres, k + 1, emotion_scores)

GetGenreEmotions(genres) == GenreEmotionsFrom(genres, 1, EmptyDict)

RECURSIVE SumSeq(_)
SumSeq(s) == IF s = <<>> THEN 0 ELSE s[1] + SumSeq(Tail(s))

HIGH_INTENSITY == { "action", "thriller", "horror", "war", "crime" }
MEDIUM_INTENSITY == { "adventure", "mystery", "science fiction", "drama", "western" }
LOW_INTENSITY == { "comedy", "family", "romance", "animation", "music" }

IntensityLevel(genre) ==
    LET genre_lower == LowerStrip(genre)
    IN  IF genre_lower \in HIGH_INTENSITY THEN 8
        ELSE IF genre_lower \in MEDIUM_INTENSITY THEN 5
        ELSE IF genre_lower \in LOW_INTENSITY THEN 3
        ELSE 5

\* Mutant of GetIntensityFromGenres: genres in none of the three sets are left out of the mean.
GetIntensityFromGenresKnownOnly(genres) ==
    LET known == SelectSeq(genres, LAMBDA g :
                    LowerStrip(g) \in HIGH_INTENSITY \cup MEDIUM_INTENSITY \cup LOW_INTENSITY)
    IN  IF known = <<>> THEN <<5, 1>>
        ELSE <<SumSeq([k \in 1..Len(known) |-> IntensityLevel(known[k])]), Len(known)>>

\* get_intensity_from_genres: sum(scores) / len(scores), or 5; kept as the
\* fraction <<numerator, denominator>>.
GetIntensityFromGenres(genres) ==
    IF genres = <<>> THEN <<5, 1>>
    ELSE <<SumSeq([k \in 1..Len(genres) |-> IntensityLevel(genres[k])]), Len(genres)>>

HIGH_COMFORT == { "comedy", "family", "animation", "romance", "music" }
MEDIUM_COMFORT == { "adventure", "fantasy", "drama", "documentary" }
LOW_COMFORT == { "horror", "thriller", "war", "crime" }

ComfortLevel(genre) ==
    LET genre_lower == LowerStrip(genre)
    IN  IF genre_lower \in HIGH_COMFORT THEN 8
        ELSE IF genre_lower \in MEDIUM_COMFORT THEN 5
        ELSE IF genre_lower \in LOW_COMFORT THEN 2
        ELSE 5

\* get_comfort_from_genres without the level 5.0 of an empty genre list.
GetComfortFromGenresNoDefault(genres) ==
    IF genres = <<>> THEN <<0, 1>>
    ELSE <<SumSeq([k \in 1..Len(genres) |-> ComfortLevel(genres[k])]), Len(genres)>>

\* get_comfort_from_genres, as a fraction.
GetComfortFromGenres(genres) ==
    IF genres = <<>> THEN <<5, 1>>
    ELSE <<SumSeq([k \in 1..Len(genres) |-> ComfortLevel(genres[k])]), Len(genres)>>

(***************************************************************************)
(* emotion_engine/profiler.py                                              *)
(***************************************************************************)
\* round(x, ndigits) of x = a / b (b > 0), as the set of results it can give:
\* the nearest integer, and both neighbours when a / b lies exactly half way.
\* Python rounds the float it computed, and on an exact tie the float's own
\* error decides the direction (round(1.65, 1) is 1.6 or 1.7 depending on how
\* 1.65 was computed), so a tie is left open.
RoundDiv(a, b) ==
    LET q == a \div b
        r == a % b
    IN  IF 2 * r < b THEN { q }
        ELSE IF 2 * r > b THEN { q + 1 }
        ELSE { q, q + 1 }

RECURSIVE MaxSeq(_)
MaxSeq(s) == IF Len(s) = 1 THEN s[1] ELSE Max2(s[1], MaxSeq(Tail(s)))

GetAll(emotions, names) == [k \in 1..Len(names) |-> DictGet(emotions, names[k], 0)]

HIGH_INTENSITY_EMOTIONS ==
    <<"thrilling_tension", "controlled_fear", "righteous_anger", "mind_blown">>

\* calculate_intensity, in tenths as a fraction: emotions are in thousandths,
\* (e * 0.7 + (g / 10) * 0.3) * 10 = (7 * e * gd + 300 * gn) / (100 * gd) tenths.
CalculateIntensity(emotions, genres) ==
    LET emotion_intensity == MaxSeq(GetAll(emotions, HIGH_INTENSITY_EMOTIONS))
        g == GetIntensityFromGenres(genres)
    IN  <<7 * emotion_intensity * g[2] + 300 * g[1], 100 * g[2]>>

CATHARTIC_EMOTIONS ==
    <<"cathartic_sadness", "bittersweet_hope", "triumphant_inspired", "awe_wonder">>

\* Mutant of CalculateCatharsis: the maximum alone, without the mean.
CalculateCatharsisMaxOnly(emotions) ==
    LET catharsis_scores == GetAll(emotions, CATHARTIC_EMOTIONS)
    IN  <<28 * MaxSeq(catharsis_scores), 400>>

\* calculate_catharsis, in tenths as a fraction:
\* (max * 0.7 + (sum / 4) * 0.3) * 10 = (28 * max + 3 * sum) / 400 tenths.
CalculateCatharsis(emotions) ==
    LET catharsis_scores == GetAll(emotions, CATHARTIC_EMOTIONS)
    IN  <<28 * MaxSeq(catharsis_scores) + 3 * SumSeq(catharsis_scores), 400>>

COMFORT_EMOTIONS == <<"pure_joy", "cozy_comfort", "romantic_warmth">>
DISCOMFORT_EMOTIONS == <<"controlled_fear", "thrilling_tension", "cathartic_sadness">>

\* calculate_comfort, in tenths as a fraction, clamped to 0..10:
\* ((C/3 - (D/3) * 0.5) * 0.6 + (g / 10) * 0.4) * 10
\*    = ((2 * C - D) * gd + 400 * gn) / (100 * gd) tenths.
CalculateComfort(emotions, genres) ==
    LET c == SumSeq(GetAll(emotions, COMFORT_EMOTIONS))
        d == SumSeq(GetAll(emotions, DISCOMFORT_EMOTIONS))
        g == GetComfortFromGenres(genres)
        num == (2 * c - d) * g[2] + 400 * g[1]
        den == 100 * g[2]
    IN  IF num > 100 * den THEN <<100 * den, den>>      \* min(10, ...)
        ELSE IF num < 0 THEN <<0, den>>                 \* max(0, ...)
        ELSE <<num, den>>

\* Mutant of CombinedScore: the caller's weights used as given, not divided by
\* their sum (weights are in tenths).
CombinedScoreNotNormalised(nlp_score, genre_score, nlp_weight, genre_weight) ==
    <<nlp_score * nlp_weight + genre_score * genre_weight, 10>>

\* The weighted combination of one category (lines 101-105) as a fraction of
\* SUnit with a positive denominator: (nlp * wn + genre * wg) / (wn + wg).
CombinedScore(nlp_score, genre_score, nlp_weight, genre_weight) ==
    LET total_weight == nlp_weight + genre_weight
        num == nlp_score * nlp_weight + genre_score * genre_weight
    IN  IF total_weight > 0 THEN <<num, total_weight>> ELSE <<-num, -total_weight>>

\* combined_score > 0.01
NonTrivial(combined) == 100 * combined[1] > SUnit * combined[2]

\* The categories kept in combined_emotions (line 107), as a set.
KeptCategories(nlp_emotions, genre_emotions, nlp_weight, genre_weight) ==
    { EMOTION_CATEGORIES[k] : k \in { j \in 1..Len(EMOTION_CATEGORIES) :
        NonTrivial(CombinedScore(DictGet(nlp_emotions, EMOTION_CATEGORIES[j], 0),
                                 DictGet(genre_emotions, EMOTION_CATEGORIES[j], 0),
                                 nlp_weight, genre_weight)) } }

\* The dicts over the first k categories of keys, each score one of its roundings.
RECURSIVE RoundedDicts(_, _, _, _, _, _)
RoundedDicts(keys, k, nlp_emotions, genre_emotions, nlp_weight, genre_weight) ==
    IF k = 0 THEN { EmptyDict }
    ELSE LET c == keys[k]
             combined == CombinedScore(DictGet(nlp_emotions, c, 0), DictGet(genre_emotions, c, 0),
                                       nlp_weight, genre_weight)
         IN  { d @@ (c :> v) :
                 d \in RoundedDicts(keys, k - 1, nlp_emotions, genre_emotions,
                                    nlp_weight, genre_weight),
                 v \in RoundDiv(1000 * combined[1], SUnit * combined[2]) }

\* The combined_emotions dict (lines 97-108): the retained categories with their
\* scores rounded to 3 decimals, in thousandths; the set of dicts it can be.
CombinedEmotions(nlp_emotions, genre_emotions, nlp_weight, genre_weight) ==
    LET kept == KeptCategories(nlp_emotions, genre_emotions, nlp_weight, genre_weight)
        keys == SelectSeq(EMOTION_CATEGORIES, LAMBDA c : c \in kept)
    IN  RoundedDicts(keys, Len(keys), nlp_emotions, genre_emotions, nlp_weight, genre_weight)

\* Mutant of DominantEmotions: the three lowest scores instead of the highest.
DominantEmotionsLowest(combined_emotions) ==
    LET keys == KeysInOrder(combined_emotions)
        items == [k \in 1..Len(keys) |-> <<keys[k], -combined_emotions[keys[k]]>>]
        sorted_emotions == SortByScoreDesc(items)
        top == SliceTo(sorted_emotions, 3)
    IN  [k \in 1..Len(top) |-> top[k][1]]

\* dominant_emotions (lines 111-116): the items of the dict, which stand in
\* taxonomy order, stably sorted by descending score and cut to three.
DominantEmotions(combined_emotions) ==
    LET keys == KeysInOrder(combined_emotions)
        items == [k \in 1..Len(keys) |-> <<keys[k], combined_emotions[keys[k]]>>]
        sorted_emotions == SortByScoreDesc(items)
        top == SliceTo(sorted_emotions, 3)
    IN  [k \in 1..Len(top) |-> top[k][1]]

\* Mutant of Confidence: the length-based value without its cap.
ConfidenceUncapped(overview) ==
    IF overview.len > 20 THEN RoundDiv(500 + overview.len, 10) ELSE { 50 }

\* confidence (lines 84-91, 133) in hundredths: round(min(0.9, 0.5 + len/1000), 2)
\* when the overview is used, 0.5 otherwise.
Confidence(overview) ==
    IF overview.len > 20 THEN RoundDiv(Min2(900, 500 + overview.len), 10) ELSE { 50 }

\* The EmotionProfile built from a combined_emotions dict (lines 111-134).
ProfilesOf(combined_emotions, genres, overview) ==
    LET intensity == CalculateIntensity(combined_emotions, genres)
        catharsis == CalculateCatharsis(combined_emotions)
        comfort == CalculateComfort(combined_emotions, genres)
    IN  { [ status |-> "returned",
            emotion_scores |-> combined_emotions,
            dominant_emotions |-> DominantEmotions(combined_emotions),
            intensity_score |-> i,
            catharsis_score |-> ca,
            comfort_score |-> co,
            confidence |-> cf ] :
            i \in RoundDiv(intensity[1], intensity[2]),
            ca \in RoundDiv(catharsis[1], catharsis[2]),
            co \in RoundDiv(comfort[1], comfort[2]),
            cf \in Confidence(overview) }

\* The profiles of a call whose weights can be normalised (lines 82-134).
SynthesizedProfiles(overview, response, genres, nlp_weight, genre_weight) ==
    LET nlp_emotions ==
            IF overview.len > 20
            THEN MapToCategories(ClassifyText(overview, response))
            ELSE EmptyDict
        genre_emotions == GetGenreEmotions(genres)
    IN  UNION { ProfilesOf(combined_emotions, genres, overview) :
                   combined_emotions \in CombinedEmotions(nlp_emotions, genre_emotions,
                                                          nlp_weight, genre_weight) }

\* Mutant of CreateEmotionProfile: weights that sum to zero are replaced by the defaults.
CreateEmotionProfileDefaultWeights(overview, response, genres, nlp_weight, genre_weight) ==
    IF nlp_weight + genre_weight = 0
    THEN SynthesizedProfiles(overview, response, genres, 6, 4)
    ELSE SynthesizedProfiles(overview, response, genres, nlp_weight, genre_weight)

\* Mutant of CreateEmotionProfile: an exception of the classifier reaches the caller.
CreateEmotionProfileNoCatch(overview, response, genres, nlp_weight, genre_weight) ==
    IF nlp_weight + genre_weight = 0
    THEN { [ status |-> "raised", error |-> "ZeroDivisionError" ] }
    ELSE IF overview.len > 20 /\ overview.stripped >= 10 /\ response.kind # "answers"
    THEN { [ status |-> "raised", error |-> "Exception" ] }
    ELSE SynthesizedProfiles(overview, response, genres, nlp_weight, genre_weight)

\* create_emotion_profile: the set of results the call can have.  response is
\* what the classifier does if it is asked: it answers a sequence of
\* <<label, score>>, raises, or fails to load.  Weights are in tenths; the
\* division by a zero total_weight (lines 79-80) raises.
CreateEmotionProfile(overview, response, genres, nlp_weight, genre_weight) ==
    IF nlp_weight + genre_weight = 0
    THEN { [ status |-> "raised", error |-> "ZeroDivisionError" ] }
    ELSE SynthesizedProfiles(overview, response, genres, nlp_weight, genre_weight)

(***************************************************************************)
(* Inputs of the synthesis.                                                *)
(***************************************************************************)
Text(l, st) == [len |-> l, stripped |-> st]

\* No text; a text of 20 characters; 34 characters of which 6 are not blank;
\* two texts that are classified, the longer one past the confidence cap.
Overviews == { Text(0, 0), Text(20, 20), Text(34, 6), Text(123, 123), Text(600, 600) }

\* Two tense genres, a comfortable one written with blanks, a genre whose third
\* and fourth categories tie, a genre outside the table.
GenreNames == { "Horror", "Thriller", " comedy ", "War", "Noir" }
GenreLists == SeqsUpTo(GenreNames, MaxGenres)

\* Labels of the classifier: two that map to one category, one that maps to
\* another, the dropped label, a label outside the table.
Labels == <<"joy", "amusement", "fear", "neutral", "bogus">>
\* Classifier scores 0.012 and 1.0, in units of 1/SUnit.
LabelScores == { 96, SUnit }

\* The answers of at most n labels taken from Labels[first..] in that order.
\* classify_text turns the answer into a dict keyed by label (line 78), so the
\* labels of an answer are distinct and their order is not observable.
RECURSIVE ResponsesFrom(_, _)
ResponsesFrom(first, n) ==
    IF n = 0 \/ first > Len(Labels) THEN { <<>> }
    ELSE ResponsesFrom(first + 1, n)
         \cup { <<<<Labels[first], sc>>>> \o r :
                  sc \in LabelScores, r \in ResponsesFrom(first + 1, n - 1) }

Response(kind, emotions) == [ kind |-> kind, emotions |-> emotions ]

ClassifierResponses ==
    { Response("answers", r) : r \in ResponsesFrom(1, MaxLabels) }
    \cup { Response("raises", <<>>), Response("fails to load", <<>>) }

\* Weight pairs in tenths: the defaults, equal weights, one signal only, a zero
\* sum, opposite signs, both negative.
WeightPairs ==
    { <<6, 4>>, <<10, 10>>, <<10, 0>>, <<0, 10>>, <<0, 0>>, <<5, -5>>, <<15, -5>>, <<-5, 15>>, <<-6, -4>> }

\* The components that are not running.
NoBulk == [ pc |-> "idle" ]
NoRequest == [ pc |-> "idle" ]
NoSignal == [ pc |-> "idle" ]

NoSynth == [ overview |-> Text(0, 0), genres |-> <<>>, nlp_weight |-> 6, genre_weight |-> 4 ]
NoProfile == [ status |-> "none" ]

\* The classifier is asked only for a text of more than 20 characters that has
\* at least 10 once stripped.
ClassifierAsked(overview) == overview.len > 20 /\ overview.stripped >= 10

(***************************************************************************)
(* The recommender as a state machine: a loaded catalog serving calls.     *)
(***************************************************************************)
NoCall ==
    [ op |-> "none", current_mood |-> "", desired_feeling |-> "", n |-> 0,
      target_emotions |-> <<>>, min_intensity |-> 0, max_intensity |-> 0, min_comfort |-> 0 ]

MoodCall(op, mood, feeling, n) ==
    [ NoCall EXCEPT !.op = op, !.current_mood = mood, !.desired_feeling = feeling, !.n = n ]

EmotionsCall(targets, lo, hi, minc, n) ==
    [ NoCall EXCEPT !.op = "recommend_by_emotions", !.target_emotions = targets,
                    !.min_intensity = lo, !.max_intensity = hi, !.min_comfort = minc, !.n = n ]

\* MoodRecommender.__init__: the catalog is loaded once.
Init ==
    /\ movies_df \in Catalogs
    /\ call = NoCall
    /\ result = <<>>
    /\ outcome = "ok"
    /\ synth = NoSynth
    /\ profile = NoProfile
    /\ rescaled = NoProfile
    /\ db = NoBulk
    /\ http = NoRequest
    /\ signal = NoSignal

\* A row the pipeline left unprocessed has no dominant_emotions: the CSV cell
\* is empty, read_csv gives the float NaN, and _load_movies keeps it (line 113).
RowIsNull(row) == "dominant_emotions" \notin DOMAIN row

\* `emotion in movie_emotions` (line 202) on a float raises TypeError; the
\* desired_emotions are never empty, so the test runs for every row scored.
ScoringRaises(df) == \E i \in 1..Len(df) : RowIsNull(df[i])

\* recommend_by_mood: every row is scored (lines 149-151) before the sort.
RecommendByMood ==
    /\ call.op = "none"
    /\ \E mood \in Moods, feeling \in Feelings, n \in NRange :
         /\ call' = MoodCall("recommend_by_mood", mood, feeling, n)
         /\ result' = IF ScoringRaises(movies_df) THEN <<>>
                      ELSE RecommendByMoodList(movies_df, mood, feeling, n)
    /\ outcome' = IF ScoringRaises(movies_df) THEN "error" ELSE "ok"
    /\ UNCHANGED <<movies_df, syn_vars, ext_vars>>

\* Mutant of RecommendByEmotions: the filtered frame is stored back as the catalog.
RecommendByEmotionsKeepsFiltered ==
    /\ call.op = "none"
    /\ \E targets \in TargetLists, lo \in MinIntensities, hi \in MaxIntensities,
          minc \in MinComforts, n \in NRange :
         /\ call' = EmotionsCall(targets, lo, hi, minc, n)
         /\ result' = RecommendByEmotionsList(movies_df, targets, lo, hi, minc, n)
         /\ movies_df' = LET kept == InOrder(FilterRows(movies_df, lo, hi, minc), 1, Len(movies_df))
                         IN  [k \in 1..Len(kept) |-> movies_df[kept[k]]]
    /\ outcome' = "ok"
    /\ UNCHANGED <<syn_vars, ext_vars>>

\* recommend_by_emotions: the filter builds a new frame (lines 295-299) and the
\* rows are only read; self.movies_df is not assigned.
RecommendByEmotions ==
    /\ call.op = "none"
    /\ \E targets \in TargetLists, lo \in MinIntensities, hi \in MaxIntensities,
          minc \in MinComforts, n \in NRange :
         /\ call' = EmotionsCall(targets, lo, hi, minc, n)
         /\ result' = RecommendByEmotionsList(movies_df, targets, lo, hi, minc, n)
    /\ outcome' = "ok"
    /\ UNCHANGED <<movies_df, syn_vars, ext_vars>>

GetMoodJourney ==
    /\ call.op = "none"
    /\ \E start \in Moods, end \in Feelings, n \in JourneyRange :
         /\ call' = MoodCall("get_mood_journey", start, end, n)
         /\ result' = IF ScoringRaises(movies_df) THEN <<>>
                      ELSE GetMoodJourneyList(movies_df, start, end, n)
    /\ outcome' = IF ScoringRaises(movies_df) THEN "error" ELSE "ok"
    /\ UNCHANGED <<movies_df, syn_vars, ext_vars>>

\* The caller takes the returned list; the recommender is ready for the next call.
Return ==
    /\ call.op # "none"
    /\ call' = NoCall
    /\ result' = <<>>
    /\ outcome' = "ok"
    /\ UNCHANGED <<movies_df, syn_vars, ext_vars>>

Next == RecommendByMood \/ RecommendByEmotions \/ GetMoodJourney \/ Return

Spec == Init /\ [][Next]_vars

(***************************************************************************)
(* recommend_by_mood over catalogs of comfortable and of tense items.      *)
(***************************************************************************)
\* Rows on both sides of the comfort 6 / intensity 4 and comfort 4 /
\* intensity 6 lines, carrying none, one or all of the "feel-good" categories.
ScenarioPool ==
    { MovieRow("Still Water", <<"awe_wonder">>, 39, 61),
      MovieRow("Paddington", <<"cozy_comfort", "bittersweet_hope">>, 30, 80),
      MovieRow("Alien", <<"controlled_fear", "thrilling_tension">>, 80, 10),
      MovieRow("Caper", <<"thrilling_tension", "pure_joy">>, 61, 39),
      MovieRow("Carnival", <<"pure_joy", "cozy_comfort", "romantic_warmth">>, 61, 39) }

ScenarioCatalogs == SeqsUpTo(ScenarioPool, MaxCatalog)

InitScenario ==
    /\ movies_df \in ScenarioCatalogs
    /\ call = NoCall
    /\ result = <<>>
    /\ outcome = "ok"
    /\ synth = NoSynth
    /\ profile = NoProfile
    /\ rescaled = NoProfile
    /\ db = NoBulk
    /\ http = NoRequest
    /\ signal = NoSignal

NextScenario == RecommendByMood \/ Return

SpecScenario == InitScenario /\ [][NextScenario]_vars

\* The journeys over catalogs of a comfortable, a tense and a joyful row.
JourneyPool == { row \in ScenarioPool : row.title \in { "Paddington", "Alien", "Carnival" } }

JourneyCatalogs == SeqsUpTo(JourneyPool, MaxCatalog)

InitJourney ==
    /\ movies_df \in JourneyCatalogs
    /\ call = NoCall
    /\ result = <<>>
    /\ outcome = "ok"
    /\ synth = NoSynth
    /\ profile = NoProfile
    /\ rescaled = NoProfile
    /\ db = NoBulk
    /\ http = NoRequest
    /\ signal = NoSignal

NextJourney == GetMoodJourney \/ Return

SpecJourney == InitJourney /\ [][NextJourney]_vars

(***************************************************************************)
(* The synthesis as a state machine: one create_emotion_profile call.      *)
(***************************************************************************)
InitProfile ==
    /\ synth \in [ overview : Overviews, genres : GenreLists,
                   nlp_weight : { w[1] : w \in WeightPairs },
                   genre_weight : { w[2] : w \in WeightPairs } ]
    /\ <<synth.nlp_weight, synth.genre_weight>> \in WeightPairs
    /\ profile = NoProfile
    /\ rescaled = NoProfile
    /\ db = NoBulk
    /\ http = NoRequest
    /\ signal = NoSignal
    /\ movies_df = <<>>
    /\ call = NoCall
    /\ result = <<>>
    /\ outcome = "ok"

Synthesize ==
    /\ profile.status = "none"
    /\ LET asked == /\ synth.nlp_weight + synth.genre_weight # 0     \* line 79 did not raise
                    /\ ClassifierAsked(synth.overview)
       IN  \E response \in (IF asked THEN ClassifierResponses
                            ELSE { Response("not asked", <<>>) }) :
           \E p \in CreateEmotionProfile(synth.overview, response, synth.genres,
                                          synth.nlp_weight, synth.genre_weight) :
              profile' = [ response |-> response,
                           classifier_calls |-> IF asked THEN ClassifierCalls(synth.overview)
                                                ELSE 0 ] @@ p
    /\ UNCHANGED <<synth, rescaled, rec_vars, ext_vars>>

NextProfile == Synthesize

SpecProfile == InitProfile /\ [][NextProfile]_vars

(***************************************************************************)
(* The synthesis called twice on the same text, genres and classifier      *)
(* answer, the second time with both weights multiplied by one factor.     *)
(***************************************************************************)
\* Weight pairs in tenths: the defaults, 0.3 and 0.1 (their sum 0.4 and their
\* quotients are not exact in binary), one signal only.
WeightPairsToScale == { <<6, 4>>, <<3, 1>>, <<10, 0>> }
ScaleFactors == { 3, 10 }
\* The scores do not depend on the length of a classified text: no text, and one
\* that is classified.  Two genres that share categories and one that does not.
OverviewsToScale == { Text(0, 0), Text(123, 123) }
GenreListsToScale == SeqsUpTo({ "Horror", "Thriller", " comedy " }, MaxGenres)

InitScaled ==
    /\ synth \in [ overview : OverviewsToScale, genres : GenreListsToScale,
                   nlp_weight : { w[1] : w \in WeightPairsToScale },
                   genre_weight : { w[2] : w \in WeightPairsToScale } ]
    /\ <<synth.nlp_weight, synth.genre_weight>> \in WeightPairsToScale
    /\ profile = NoProfile
    /\ rescaled = NoProfile
    /\ db = NoBulk
    /\ http = NoRequest
    /\ signal = NoSignal
    /\ movies_df = <<>>
    /\ call = NoCall
    /\ result = <<>>
    /\ outcome = "ok"

SynthesizeScaled ==
    /\ profile.status # "none"
    /\ rescaled.status = "none"
    /\ \E factor \in ScaleFactors :
       \E p \in CreateEmotionProfile(synth.overview, profile.response, synth.genres,
                                      factor * synth.nlp_weight, factor * synth.genre_weight) :
          rescaled' = [ factor |-> factor ] @@ p
    /\ UNCHANGED <<synth, profile, rec_vars, ext_vars>>

NextScaled == Synthesize \/ SynthesizeScaled

SpecScaled == InitScaled /\ [][NextScaled]_vars

(***************************************************************************)
(* database/models.py: bulk_insert_movies on one session.                  *)
(*                                                                         *)
(* A movies row is held as tmdb_id |-> title.  `table` is what is          *)
(* committed; `view` is what the session's open transaction holds (the     *)
(* committed rows, the flushed inserts and the attribute changes made      *)
(* since); `pending` are the positions of the input records whose insert   *)
(* or update belongs to the open transaction.  The session is made with    *)
(* autocommit=False (line 340), so nothing is committed before line 586.   *)
(***************************************************************************)
NoId == -1          \* a record without the key "tmdb_id" (data.pop gives None)

MovieData(tmdb_id, title) == [ tmdb_id |-> tmdb_id, title |-> title ]

\* Input records: no id, two ids; no title (the column is NOT NULL), two titles.
MovieDataPool == { MovieData(t, ti) : t \in { NoId, 1, 2 }, ti \in { "None", "A", "B" } }
MovieDataLists == SeqsUpTo(MovieDataPool, MaxRecords)

\* The movies table before the call: empty, or holding movie 1.
Tables == { EmptyDict, (1 :> "A") }

\* get_or_create_movie: what it does to the transaction's view, or the
\* exception of session.flush() for a new row without a title.
GetOrCreateMovie(view, tmdb_id, title) ==
    IF tmdb_id \notin DOMAIN view
    THEN IF title = "None"
         THEN [ raised |-> TRUE, view |-> view ]                         \* IntegrityError
         ELSE [ raised |-> FALSE, view |-> view @@ (tmdb_id :> title) ]  \* add, flush
    ELSE IF title # "None"
         THEN [ raised |-> FALSE, view |-> [view EXCEPT ![tmdb_id] = title] ]
         ELSE [ raised |-> FALSE, view |-> view ]

InitBulk ==
    /\ \E movies_data \in MovieDataLists, table \in Tables :
         db = [ pc |-> "loop", movies_data |-> movies_data, i |-> 1, count |-> 0,
                table |-> table, view |-> table, pending |-> {}, rollbacks |-> 0 ]
    /\ movies_df = <<>>
    /\ call = NoCall
    /\ result = <<>>
    /\ outcome = "ok"
    /\ synth = NoSynth
    /\ profile = NoProfile
    /\ rescaled = NoProfile
    /\ http = NoRequest
    /\ signal = NoSignal

\* One turn of the loop (lines 574-584).
BulkInsertRecord ==
    /\ db.pc = "loop"
    /\ db.i <= Len(db.movies_data)
    /\ LET data == db.movies_data[db.i]
           done == GetOrCreateMovie(db.view, data.tmdb_id, data.title)
       IN  db' = IF data.tmdb_id = NoId
                 THEN [db EXCEPT !.i = @ + 1]                                   \* continue
                 ELSE IF done.raised
                 THEN \* session.rollback(): the whole open transaction is undone
                      [db EXCEPT !.i = @ + 1, !.view = db.table, !.pending = {},
                                 !.rollbacks = @ + 1]
                 ELSE [db EXCEPT !.i = @ + 1, !.view = done.view, !.count = @ + 1,
                                 !.pending = @ \cup { db.i }]
    /\ UNCHANGED <<rec_vars, syn_vars, http, signal>>

\* session.commit() and return count (lines 586-587).
BulkInsertCommit ==
    /\ db.pc = "loop"
    /\ db.i > Len(db.movies_data)
    /\ db' = [db EXCEPT !.pc = "returned", !.table = db.view]
    /\ UNCHANGED <<rec_vars, syn_vars, http, signal>>

NextBulk == BulkInsertRecord \/ BulkInsertCommit

SpecBulk == InitBulk /\ [][NextBulk]_vars

(***************************************************************************)
(* The two signal mappers called on their own: map_to_categories on a      *)
(* dict of labels, and the three genre functions on one genre list.        *)
(***************************************************************************)
\* Every label of MODEL_TO_CATEGORY and a label outside it.
SignalLabels == DOMAIN MODEL_TO_CATEGORY \cup { "bogus" }

\* The dicts of at most n labels, as the sequence of their items in insertion
\* order (the order emotions.items() visits them): distinct labels in any order.
RECURSIVE LabelDicts(_)
LabelDicts(n) ==
    IF n = 0 THEN { <<>> }
    ELSE LET shorter == LabelDicts(n - 1)
         IN  shorter \cup
             { Append(x[1], <<x[2], x[3]>>) :
                 x \in { y \in { t \in shorter : Len(t) = n - 1 } \X SignalLabels \X LabelScores :
                           \A k \in 1..Len(y[1]) : y[1][k][1] # y[2] } }

\* Every genre of GENRE_EMOTION_MAP, and the spellings and the unknown genre of GenreNames.
SignalGenreNames == DOMAIN GENRE_EMOTION_MAP \cup GenreNames
\* Every such name in lists of up to MaxGenres, and one genre longer over the
\* names of GenreNames and "action": four genres that all name thrilling_tension.
SignalGenreLists ==
    SeqsUpTo(SignalGenreNames, MaxGenres) \cup SeqsUpTo(GenreNames \cup { "action" }, MaxGenres + 1)

InitSignal ==
    /\ \/ \E emotions \in LabelDicts(MaxLabels) :
            signal = [ pc |-> "asked", fn |-> "map_to_categories", emotions |-> emotions,
                       genres |-> <<>>, done |-> {}, category_scores |-> EmptyDict,
                       genre_emotions |-> EmptyDict, intensity |-> <<0, 1>>, comfort |-> <<0, 1>> ]
       \/ \E genres \in SignalGenreLists :
            signal = [ pc |-> "asked", fn |-> "genres", emotions |-> <<>>,
                       genres |-> genres, done |-> {}, category_scores |-> EmptyDict,
                       genre_emotions |-> EmptyDict, intensity |-> <<0, 1>>, comfort |-> <<0, 1>> ]
    /\ movies_df = <<>>
    /\ call = NoCall
    /\ result = <<>>
    /\ outcome = "ok"
    /\ synth = NoSynth
    /\ profile = NoProfile
    /\ rescaled = NoProfile
    /\ db = NoBulk
    /\ http = NoRequest

\* map_to_categories(emotions)
MapToCategoriesCall ==
    /\ signal.pc = "asked"
    /\ signal.fn = "map_to_categories"
    /\ "categories" \notin signal.done
    /\ signal' = [signal EXCEPT !.done = @ \cup { "categories" },
                                !.category_scores = MapToCategories(signal.emotions)]
    /\ UNCHANGED <<rec_vars, syn_vars, db, http>>

\* get_genre_emotions(genres)
GetGenreEmotionsCall ==
    /\ signal.pc = "asked"
    /\ signal.fn = "genres"
    /\ "emotions" \notin signal.done
    /\ signal' = [signal EXCEPT !.done = @ \cup { "emotions" },
                                !.genre_emotions = GetGenreEmotions(signal.genres)]
    /\ UNCHANGED <<rec_vars, syn_vars, db, http>>

\* get_intensity_from_genres(genres)
GetIntensityFromGenresCall ==
    /\ signal.pc = "asked"
    /\ signal.fn = "genres"
    /\ "intensity" \notin signal.done
    /\ signal' = [signal EXCEPT !.done = @ \cup { "intensity" },
                                !.intensity = GetIntensityFromGenres(signal.genres)]
    /\ UNCHANGED <<rec_vars, syn_vars, db, http>>

\* get_comfort_from_genres(genres)
GetComfortFromGenresCall ==
    /\ signal.pc = "asked"
    /\ signal.fn = "genres"
    /\ "comfort" \notin signal.done
    /\ signal' = [signal EXCEPT !.done = @ \cup { "comfort" },
                                !.comfort = GetComfortFromGenres(signal.genres)]
    /\ UNCHANGED <<rec_vars, syn_vars, db, http>>

NextSignal ==
    \/ MapToCategoriesCall
    \/ GetGenreEmotionsCall
    \/ GetIntensityFromGenresCall
    \/ GetComfortFromGenresCall

SpecSignal == InitSignal /\ [][NextSignal]_vars

(***************************************************************************)
(* data_collection/tmdb_collector.py: TMDBCollector._make_request.         *)
(*                                                                         *)
(* One call.  `log` holds what each session.get of the call met, in order; *)
(* requests_made counts from the call's start.  The sleeps (lines 73-75,   *)
(* 86, 97, 102) are finite waits and take no step of their own.            *)
(***************************************************************************)
\* What one session.get(url, params, timeout=30) can meet:
\*   a 200 response with a JSON body; a 200 response whose body is not JSON;
\*   a 429 response without a Retry-After header, with a number of seconds, or
\*   with an HTTP-date (RFC 9110 allows both forms); a 404; a 500;
\*   no response within the timeout; a connection error.
Meetings ==
    { "200 json", "200 not json", "429", "429 seconds", "429 date", "404", "500",
      "timeout", "connection error" }

\* A response was received (session.get returned), so line 80 ran.
GotResponse(meeting) == meeting \notin { "timeout", "connection error" }

\* How one turn of the loop can end.  int() of a Retry-After that is a date
\* raises ValueError, which no except clause of the function names.
\* response.json() of a body that is not JSON raises JSONDecodeError: a
\* RequestException from requests 2.27 on (caught at line 99), a plain
\* ValueError before (not caught); the requirements pin no version, so both.
TurnEnds(meeting) ==
    CASE meeting = "200 json" -> { "return json" }
      [] meeting = "200 not json" -> { "next attempt", "raise ValueError" }
      [] meeting \in { "429", "429 seconds" } -> { "next attempt" }
      [] meeting = "429 date" -> { "raise ValueError" }
      [] meeting = "404" -> { "return None" }
      [] OTHER -> { "next attempt" }       \* raise_for_status, Timeout, RequestException

RetryCounts == 0..MaxRetries

InitRequest ==
    /\ \E retries \in RetryCounts :
         http = [ pc |-> "loop", retries |-> retries, attempt |-> 0, log |-> <<>>,
                  requests_made |-> 0, returned |-> "nothing" ]
    /\ movies_df = <<>>
    /\ call = NoCall
    /\ result = <<>>
    /\ outcome = "ok"
    /\ synth = NoSynth
    /\ profile = NoProfile
    /\ rescaled = NoProfile
    /\ db = NoBulk
    /\ signal = NoSignal

\* One turn of `for attempt in range(retries)` (lines 77-102).
RequestAttempt ==
    /\ http.pc = "loop"
    /\ http.attempt < http.retries
    /\ \E meeting \in Meetings : \E end \in TurnEnds(meeting) :
         http' = [http EXCEPT
                    !.log = Append(@, meeting),
                    !.requests_made = IF GotResponse(meeting) THEN @ + 1 ELSE @,
                    !.attempt = IF end = "next attempt" THEN @ + 1 ELSE @,
                    !.pc = CASE end = "next attempt" -> "loop"
                             [] end = "raise ValueError" -> "raised"
                             [] OTHER -> "returned",
                    !.returned = CASE end = "return json" -> "json"
                                   [] end = "return None" -> "None"
                                   [] OTHER -> @]
    /\ UNCHANGED <<rec_vars, syn_vars, db, signal>>

\* The loop is used up: return None (line 104).
RequestGiveUp ==
    /\ http.pc = "loop"
    /\ http.attempt >= http.retries
    /\ http' = [http EXCEPT !.pc = "returned", !.returned = "None"]
    /\ UNCHANGED <<rec_vars, syn_vars, db, signal>>

NextRequest == RequestAttempt \/ RequestGiveUp

SpecRequest == InitRequest /\ [][NextRequest]_vars

\* The interpreter runs the call on: a turn that can be taken is taken.
SpecRequestFair == SpecRequest /\ WF_vars(NextRequest)

(***************************************************************************)
(* The catalog file of process_movies_from_csv, loaded by MoodRecommender.  *)
(***************************************************************************)
\* A row of the input CSV with the answer the classifier gives for it.
CsvRow(t, overview, genres, response) ==
    [ title |-> t, overview |-> overview, genres |-> genres, response |-> response ]

\* A movie without an overview, a tense one, a comfortable one whose
\* classification fails, one classified without genres.
CsvPool ==
    { CsvRow("Untitled", Text(0, 0), <<"Horror">>, Response("answers", <<>>)),
      CsvRow("Alien", Text(123, 123), <<"Horror", "Thriller">>,
             Response("answers", <<<<"fear", SUnit>>>>)),
      CsvRow("Paddington", Text(123, 123), <<" comedy ">>, Response("raises", <<>>)),
      CsvRow("Carnival", Text(600, 600), <<>>,
             Response("answers", <<<<"joy", SUnit>>, <<"amusement", 96>>>>)) }

\* The output columns as first written (lines 39-44): nulls, not processed.
NullRow(t) == [ title |-> t, emotion_processed |-> FALSE ]

\* One turn of the loop (lines 49-86): a row without overview is skipped, a
\* failed profile is logged and skipped, a profile is stored in the row.
ProcessedRows(row) ==
    IF row.overview.len = 0 THEN { NullRow(row.title) }
    ELSE { IF p.status = "raised" THEN NullRow(row.title)
           ELSE MovieRow(row.title, p.dominant_emotions, p.intensity_score, p.comfort_score) :
           p \in CreateEmotionProfile(row.overview, row.response, row.genres, 6, 4) }

\* The catalogs process_movies_from_csv can write for the rows of a CSV.
RECURSIVE ProcessMoviesFromCsv(_)
ProcessMoviesFromCsv(csv) ==
    IF csv = <<>> THEN { <<>> }
    ELSE { <<row>> \o rest : row \in ProcessedRows(Head(csv)),
                             rest \in ProcessMoviesFromCsv(Tail(csv)) }

CatalogFiles == UNION { ProcessMoviesFromCsv(csv) : csv \in SeqsUpTo(CsvPool, MaxCatalog) }

\* MoodRecommender(movies_path): the file is read back by _load_movies.
InitCatalogFile ==
    /\ movies_df \in CatalogFiles
    /\ call = NoCall
    /\ result = <<>>
    /\ outcome = "ok"
    /\ synth = NoSynth
    /\ profile = NoProfile
    /\ rescaled = NoProfile
    /\ db = NoBulk
    /\ http = NoRequest
    /\ signal = NoSignal

NextCatalogFile == RecommendByMood \/ Return

SpecCatalogFile == InitCatalogFile /\ [][NextCatalogFile]_vars

(***************************************************************************)
(* Properties of the recommender, checked under Spec.                      *)
(***************************************************************************)
IsMoodCall == call.op = "recommend_by_mood"
IsEmotionsCall == call.op = "recommend_by_emotions"
IsJourneyCall == call.op = "get_mood_journey"

\* A list is in non-increasing match_score order, equal scores in catalog order.
RankedStably(recs) ==
    \A i, j \in 1..Len(recs) :
        i < j => \/ recs[i].match_score > recs[j].match_score
                 \/ /\ recs[i].match_score = recs[j].match_score
                    /\ recs[i].idx < recs[j].idx

\* C3: recommend_by_mood returns its items in non-increasing match_score order,
\* and items with equal match_score appear in their catalog order (so the order
\* is one total order: no two entries are left unordered).
C3_RankedByScoreStable == IsMoodCall => RankedStably(result)

\* C3 witness: a ranking that holds a tie between two rows and a strict descent.
C3_Witness ==
    /\ IsMoodCall
    /\ \E i, j \in 1..Len(result) :
         i < j /\ result[i].match_score = result[j].match_score
    /\ \E i, j \in 1..Len(result) :
         i < j /\ result[i].match_score > result[j].match_score

\* The score formula of section 4.3, written over 10 * Unit so that nothing is
\* divided before the comparison: preferences are "low", "high" or "medium".
ClaimPrefMatch(x, pref) ==
    CASE pref = "low" -> Max2(0, 100 - x)
      [] pref = "high" -> x
      [] OTHER -> 100 - 2 * Abs(x - 50)

ClaimTargetsPresent(row, targets) ==
    Cardinality({ k \in 1..Len(targets) :
                    \E m \in 1..Len(row.dominant_emotions) :
                        row.dominant_emotions[m] = targets[k] })

\* 1000 * len(targets) * (0.4*em + 0.3*im + 0.3*cm + bonus)
ClaimWeightedSum(row, targets, intensity_pref, comfort_pref, has_bonus) ==
    400 * ClaimTargetsPresent(row, targets)
    + 3 * Len(targets) * ClaimPrefMatch(row.intensity_score, intensity_pref)
    + 3 * Len(targets) * ClaimPrefMatch(row.comfort_score, comfort_pref)
    + (IF has_bonus THEN 100 * Len(targets) ELSE 0)

\* score = min(1.0, weighted sum), compared exactly.
ClaimScoreIs(score, row, targets, intensity_pref, comfort_pref, has_bonus) ==
    LET sum == ClaimWeightedSum(row, targets, intensity_pref, comfort_pref, has_bonus)
        one == 1000 * Len(targets)
    IN  score * one = Unit * (IF sum > one THEN one ELSE sum)

ClaimPref(mood, key) ==
    LET m == Lower(mood)
    IN  IF m \in DOMAIN MOOD_PRESETS /\ key \in DOMAIN MOOD_PRESETS[m]
        THEN MOOD_PRESETS[m][key] ELSE "medium"

ClaimHasBonus(mood, row) ==
    LET m == Lower(mood)
    IN  /\ m \in DOMAIN MOOD_PRESETS
        /\ "primary" \in DOMAIN MOOD_PRESETS[m]
        /\ \E k \in 1..Len(row.dominant_emotions) :
              row.dominant_emotions[k] = MOOD_PRESETS[m]["primary"]

ClaimTargets(feeling) ==
    IF Lower(feeling) \in DOMAIN DESIRED_FEELINGS
    THEN DESIRED_FEELINGS[Lower(feeling)] ELSE <<"pure_joy", "cozy_comfort">>

InRange(row) ==
    /\ row.intensity_score \in 0..100
    /\ row.comfort_score \in 0..100

\* C4: every match_score of recommend_by_mood equals
\* min(1.0, 0.4*emotion_match + 0.3*intensity_match + 0.3*comfort_match + bonus),
\* with emotion_match the fraction of target categories among the item's dominant
\* emotions and the low/high/medium formulas for the two matches; for an item
\* whose intensity and comfort lie in [0,10] the score lies in [0,1].
C4_MatchScoreFormula ==
    IsMoodCall =>
        \A k \in 1..Len(result) :
            LET row == movies_df[result[k].idx]
            IN  /\ ClaimScoreIs(result[k].match_score, row,
                                ClaimTargets(call.desired_feeling),
                                ClaimPref(call.current_mood, "intensity"),
                                ClaimPref(call.current_mood, "comfort"),
                                ClaimHasBonus(call.current_mood, row))
                /\ InRange(row) => result[k].match_score \in 0..Unit

\* C4 witness: one call that scores every row of the catalog, with a capped
\* score (the cap acts), a score under the cap earned with a "high" intensity
\* preference and a bonus, and an out-of-range row scored below 0.
C4_Witness ==
    /\ IsMoodCall
    /\ Len(result) = Len(movies_df)
    /\ \E k \in 1..Len(result) :
          /\ result[k].match_score = Unit
          /\ InRange(movies_df[result[k].idx])
    /\ \E k \in 1..Len(result) : result[k].match_score < 0

C4_WitnessHigh ==
    /\ IsMoodCall
    /\ ClaimPref(call.current_mood, "intensity") = "high"
    /\ \E k \in 1..Len(result) :
          /\ ClaimHasBonus(call.current_mood, movies_df[result[k].idx])
          /\ result[k].match_score \in 1..(Unit - 1)

\* The whole ranking of the catalog for a mood query, and its first k entries.
ClaimRanking(mood, feeling) ==
    RecommendByMoodList(movies_df, mood, feeling, Len(movies_df))

ClaimTop(k, ranking) == SubSeq(ranking, 1, IF k < Len(ranking) THEN k ELSE Len(ranking))

ClaimJourneyParts(start, end, n) ==
    ClaimTop(1, ClaimRanking(start, start))
    \o (IF n >= 3 THEN ClaimTop(n - 2, ClaimRanking(start, end)) ELSE <<>>)
    \o ClaimTop(1, ClaimRanking("neutral", end))

\* C5: get_mood_journey returns, cut to n_movies entries, the top-1 result of
\* recommend_by_mood(start, start), then (only when n_movies >= 3) the top
\* n_movies-2 results of recommend_by_mood(start, end), then the top-1 result of
\* recommend_by_mood("neutral", end), in this order and without de-duplication.
C5_JourneyIsConcatenation ==
    (IsJourneyCall /\ call.n >= 0) =>
        result = ClaimTop(call.n,
                          ClaimJourneyParts(call.current_mood, call.desired_feeling, call.n))

\* C5 witness: a journey with all three phases in which one row appears twice.
C5_Witness ==
    /\ IsJourneyCall
    /\ call.n >= 3
    /\ Len(movies_df) >= 2
    /\ Len(result) = call.n
    /\ \E i, j \in 1..Len(result) : i < j /\ result[i].idx = result[j].idx

\* C6 as claimed: for n_movies >= 1 and a non-empty catalog of any size the
\* journey has exactly n_movies entries.
C6_ExactlyNMovies ==
    (IsJourneyCall /\ call.n >= 1 /\ Len(movies_df) >= 1) => Len(result) = call.n

\* C6 amended: for n_movies >= 1 and a non-empty catalog the journey has at most
\* n_movies entries; it has exactly n_movies when the catalog holds at least
\* n_movies - 2 rows, and catalog size + 2 entries when it holds fewer.
C6_AtMostNMovies ==
    (IsJourneyCall /\ call.n >= 1 /\ Len(movies_df) >= 1) =>
        /\ Len(result) <= call.n
        /\ Len(movies_df) >= call.n - 2 => Len(result) = call.n
        /\ Len(movies_df) < call.n - 2 => Len(result) = Len(movies_df) + 2

\* C6 witness: a journey over a catalog with fewer than n_movies - 2 rows.
C6_Witness ==
    /\ IsJourneyCall
    /\ Len(movies_df) >= 1
    /\ Len(movies_df) < call.n - 2
    /\ Len(result) < call.n

\* C7 as claimed: a journey or ranking call with a negative count ends in a
\* failure instead of returning a list.
C7_NegativeCountFails ==
    ((IsJourneyCall \/ IsMoodCall) /\ call.n < 0) => outcome = "error"

\* The rows that pass the bounds of recommend_by_emotions.
ClaimPassing ==
    { i \in 1..Len(movies_df) :
        /\ call.min_intensity <= movies_df[i].intensity_score
        /\ movies_df[i].intensity_score <= call.max_intensity
        /\ movies_df[i].comfort_score >= call.min_comfort }

ClaimMin(a, b) == IF a <= b THEN a ELSE b

\* C8: for n >= 0, recommend_by_mood returns exactly min(n, catalog size) items
\* and recommend_by_emotions exactly min(n, number of rows passing its filter),
\* without error, also when n exceeds the catalog size and on an empty catalog.
C8_ReturnsMinOfNAndAvailable ==
    /\ (IsMoodCall /\ call.n >= 0) =>
          /\ outcome = "ok"
          /\ Len(result) = ClaimMin(call.n, Len(movies_df))
    /\ (IsEmotionsCall /\ call.n >= 0) =>
          /\ outcome = "ok"
          /\ Len(result) = ClaimMin(call.n, Cardinality(ClaimPassing))

\* C8 witness: a ranking asked for more items than a non-empty catalog holds.
C8_Witness ==
    /\ IsMoodCall
    /\ Len(movies_df) >= 1
    /\ call.n > Len(movies_df)
    /\ Len(result) = Len(movies_df)

C8_WitnessEmotions ==
    /\ IsEmotionsCall
    /\ call.n > Cardinality(ClaimPassing)
    /\ Cardinality(ClaimPassing) \in 1..(Len(movies_df) - 1)
    /\ Len(result) = Cardinality(ClaimPassing)

\* The positions and scores of a list, in order.
ClaimOrderAndScores(recs) == [k \in 1..Len(recs) |-> <<recs[k].idx, recs[k].match_score>>]

UnknownMood == Lower(call.current_mood) \notin DOMAIN MOOD_PRESETS
UnknownFeeling == Lower(call.desired_feeling) \notin DOMAIN DESIRED_FEELINGS

C9_WitnessMood ==
    /\ IsMoodCall
    /\ UnknownMood
    /\ Len(result) >= 2

\* C10: recommend_by_emotions returns only rows with min_intensity <= intensity
\* <= max_intensity and comfort >= min_comfort; each match_score is the fraction
\* of target categories among the row's dominant emotions; the list is in
\* non-increasing score order, ties in catalog order; with an empty target set
\* every score is 0 and the list is the first n passing rows in catalog order.
C10_FilterThenFraction ==
    IsEmotionsCall =>
        /\ \A k \in 1..Len(result) :
              /\ result[k].idx \in ClaimPassing
              /\ result[k].match_score * Len(call.target_emotions)
                    = Unit * ClaimTargetsPresent(movies_df[result[k].idx], call.target_emotions)
              /\ call.target_emotions = <<>> => result[k].match_score = 0
        /\ RankedStably(result)
        /\ (call.target_emotions = <<>> /\ call.n >= 0) =>
              \A k \in 1..Len(result) :
                  Cardinality({ i \in ClaimPassing : i <= result[k].idx }) = k

\* C10 witness: a filter that rejects a row, and a list with a strict descent.
C10_Witness ==
    /\ IsEmotionsCall
    /\ Cardinality(ClaimPassing) < Len(movies_df)
    /\ \E i, j \in 1..Len(result) :
          i < j /\ result[i].match_score > result[j].match_score
    /\ \E k \in 1..Len(result) : result[k].match_score \in 1..(Unit - 1)

C10_WitnessEmptyTargets ==
    /\ IsEmotionsCall
    /\ call.target_emotions = <<>>
    /\ Len(result) >= 2
    /\ Cardinality(ClaimPassing) < Len(movies_df)

(***************************************************************************)
(* Properties of the synthesis, checked under SpecProfile.                 *)
(***************************************************************************)
Returned == profile.status = "returned"

ClaimTaxonomyIndex(c) == CHOOSE k \in 1..Len(EMOTION_CATEGORIES) : EMOTION_CATEGORIES[k] = c

\* Category a stands before category b in the ranking the claim describes:
\* a higher score, or the same score and an earlier place in the taxonomy.
ClaimRanksBefore(scores, a, b) ==
    \/ scores[a] > scores[b]
    \/ scores[a] = scores[b] /\ ClaimTaxonomyIndex(a) < ClaimTaxonomyIndex(b)

\* C1: dominant_emotions is the list of retained categories sorted by
\* descending combined score, ties in taxonomy declaration order, cut to the
\* first three: at most 3 entries (all retained categories when there are fewer
\* than 3), every entry a key of emotion_scores, consecutive entries in ranking
\* order, every listed category ranked before every category not listed, and
\* so every listed score >= every unlisted score.
C1_DominantEmotionsTopThree ==
    Returned =>
        LET dom == profile.dominant_emotions
            scores == profile.emotion_scores
            listed == { dom[k] : k \in 1..Len(dom) }
        IN  /\ Len(dom) <= 3
            /\ Len(dom) = ClaimMin(3, Cardinality(DOMAIN scores))
            /\ listed \subseteq DOMAIN scores
            /\ \A k \in 1..(Len(dom) - 1) : ClaimRanksBefore(scores, dom[k], dom[k + 1])
            /\ \A a \in listed, b \in DOMAIN scores \ listed :
                  /\ ClaimRanksBefore(scores, a, b)
                  /\ scores[a] >= scores[b]

\* A profile with more than three retained categories, two of the listed ones
\* tied, and a category left out.
C1_Witness ==
    /\ Returned
    /\ Cardinality(DOMAIN profile.emotion_scores) > 3
    /\ Len(profile.dominant_emotions) = 3
    /\ \E k \in 1..2 :
          profile.emotion_scores[profile.dominant_emotions[k]]
            = profile.emotion_scores[profile.dominant_emotions[k + 1]]

\* A tie across the cut: the last listed category and an unlisted one have the
\* same score.
C1_WitnessTieAtCut ==
    /\ Returned
    /\ Len(profile.dominant_emotions) = 3
    /\ \E b \in DOMAIN profile.emotion_scores :
          /\ \A k \in 1..3 : profile.dominant_emotions[k] # b
          /\ profile.emotion_scores[b] = profile.emotion_scores[profile.dominant_emotions[3]]

ClaimProfileInRange ==
    /\ profile.intensity_score \in 0..100
    /\ profile.catharsis_score \in 0..100
    /\ profile.comfort_score \in 0..100
    /\ profile.confidence \in 0..100
    /\ \A c \in DOMAIN profile.emotion_scores : profile.emotion_scores[c] \in 0..1000

\* C2: every profile create_emotion_profile returns, for any text, genre list
\* and weight pair for which it returns, has intensity_score, catharsis_score
\* and comfort_score in [0,10] (0..100 tenths), confidence in [0,1] (0..100
\* hundredths) and every retained emotion score in [0,1] (0..1000 thousandths).
C2_ProfileInRange == Returned => ClaimProfileInRange

\* The same ranges for the weights the docstring names (each 0-1 once
\* normalised: both weights of one sign).
ClaimWeightsOfOneSign == synth.nlp_weight * synth.genre_weight >= 0
C2_ProfileInRangeForWeightsOfOneSign ==
    (Returned /\ ClaimWeightsOfOneSign) => ClaimProfileInRange
C2_WitnessOneSign ==
    Returned /\ ClaimWeightsOfOneSign /\ profile.intensity_score > 80

(***************************************************************************)
(* Further properties of the recommender, checked under Spec.              *)
(***************************************************************************)
\* C12: after any sequence of recommend_by_mood, recommend_by_emotions and
\* get_mood_journey calls the catalog movies_df is unchanged: no step of the
\* recommender changes its rows, their field values or their order.
C12_CatalogUnchanged == [][movies_df' = movies_df]_vars

\* A recommend_by_emotions call whose filter left rows out of the result while
\* the catalog still holds all of them, one of them failing the bounds.
C12_Witness ==
    /\ IsEmotionsCall
    /\ call.n >= Len(movies_df)
    /\ Len(result) >= 1
    /\ Len(result) < Len(movies_df)
    /\ \E i \in 1..Len(movies_df) : movies_df[i].intensity_score > call.max_intensity

(***************************************************************************)
(* Properties of the weighted combination, checked under SpecScaled.       *)
(***************************************************************************)
\* The two signals of the call in the state, as the mappers give them.
ClaimNlp ==
    IF synth.overview.len > 20
    THEN MapToCategories(ClassifyText(synth.overview, profile.response))
    ELSE EmptyDict
ClaimGenre == GetGenreEmotions(synth.genres)

\* nlp_score * nlp_weight + genre_score * genre_weight of category c before the
\* division by the sum of the weights, missing scores taken as 0 (in 1/SUnit).
ClaimWeighted(c) ==
    DictGet(ClaimNlp, c, 0) * synth.nlp_weight + DictGet(ClaimGenre, c, 0) * synth.genre_weight
ClaimTotal == synth.nlp_weight + synth.genre_weight

\* combined > 0.01, and s thousandths is combined rounded to 3 decimals
\* (no further from it than half a thousandth).
ClaimAboveThreshold(c) ==
    IF ClaimTotal > 0 THEN 100 * ClaimWeighted(c) > SUnit * ClaimTotal
    ELSE 100 * ClaimWeighted(c) < SUnit * ClaimTotal
ClaimIsRounded(c, s) ==
    Abs(2 * 1000 * ClaimWeighted(c) - 2 * s * SUnit * ClaimTotal) <= SUnit * Abs(ClaimTotal)

\* The combination as C13 states it: a category is kept exactly when its
\* combined score exceeds 0.01, and is stored rounded to 3 decimals.
ClaimCombination ==
    Returned =>
        /\ DOMAIN profile.emotion_scores
             = { EMOTION_CATEGORIES[k] : k \in { j \in 1..Len(EMOTION_CATEGORIES) :
                                                   ClaimAboveThreshold(EMOTION_CATEGORIES[j]) } }
        /\ \A c \in DOMAIN profile.emotion_scores : ClaimIsRounded(c, profile.emotion_scores[c])

Rescaled == rescaled.status = "returned"

Called == profile.status # "none"

\* C14: when the weights sum to zero (both zero, or opposite) they cannot be
\* normalised, and create_emotion_profile ends in an exception that reaches the
\* caller: no profile is returned.
C14_ZeroSumWeightsRaise ==
    (Called /\ synth.nlp_weight + synth.genre_weight = 0) =>
        /\ profile.status = "raised"
        /\ profile.error = "ZeroDivisionError"
        /\ "emotion_scores" \notin DOMAIN profile

\* A call with opposite weights, on a text the classifier could have answered.
C14_Witness ==
    /\ profile.status = "raised"
    /\ synth.nlp_weight = 5 /\ synth.genre_weight = -5
    /\ ClassifierAsked(synth.overview)
    /\ profile.classifier_calls = 0
    /\ synth.genres # <<>>

\* The confidence C15 names for a text of len characters, in thousandths.
ClaimConfidence(len) == IF len > 20 THEN ClaimMin(900, 500 + len) ELSE 500

\* The confidences of the texts shorter than a text of a given length, for
\* every length up to the longest overview of the model.
ClaimLongest == CHOOSE l \in { o.len : o \in Overviews } : \A o \in Overviews : o.len <= l
ClaimConfidenceTable == [len \in 0..ClaimLongest |-> Confidence(Text(len, len))]
ClaimShorterConfidences ==
    [len \in 0..ClaimLongest |-> UNION { ClaimConfidenceTable[l] : l \in 0..(len - 1) }]

\* C15 as claimed: the profile's confidence is 0.5 for a text of at most 20
\* characters and min(0.9, 0.5 + len/1000) for a longer one.
C15_ConfidenceIsLengthFormula ==
    Returned => 10 * profile.confidence = ClaimConfidence(synth.overview.len)

\* C15 amended: the profile's confidence is that value rounded to 2 decimals;
\* it never exceeds 0.9, and no shorter text gets a higher confidence.
C15_ConfidenceIsRoundedLengthFormula ==
    Returned =>
        /\ Abs(10 * profile.confidence - ClaimConfidence(synth.overview.len)) <= 5
        /\ profile.confidence <= 90
        /\ synth.overview.len <= 20 => profile.confidence = 50
        /\ \A shorter \in ClaimShorterConfidences[synth.overview.len] :
              shorter <= profile.confidence

\* A text of 123 characters: 0.623 by the formula, 0.62 in the profile.
C15_Witness ==
    /\ Returned
    /\ synth.overview.len = 123
    /\ profile.confidence = 62

ClassifierFailed == Called /\ profile.response.kind \in { "raises", "fails to load" }

\* The fields C16 compares.
ClaimSignalFields(p) ==
    <<p.emotion_scores, p.dominant_emotions, p.intensity_score, p.catharsis_score, p.comfort_score>>

\* C16: when the classifier throws, or fails to load, on a text of more than 20
\* characters, the exception is caught, the classifier is not invoked again,
\* and create_emotion_profile returns a profile whose emotion_scores,
\* dominant_emotions, intensity, catharsis and comfort are those of the same
\* call with an empty classifier mapping.
C16_ClassifierFailureIsCaught ==
    ClassifierFailed =>
        /\ Returned
        /\ profile.classifier_calls = 1
        /\ \E q \in CreateEmotionProfile(synth.overview, Response("answers", <<>>), synth.genres,
                                          synth.nlp_weight, synth.genre_weight) :
              /\ q.status = "returned"
              /\ ClaimSignalFields(q) = ClaimSignalFields(profile)

\* The classifier threw on a classifiable text and the genres alone gave the profile.
C16_Witness ==
    /\ ClassifierFailed
    /\ profile.response.kind = "raises"
    /\ Returned
    /\ Len(profile.dominant_emotions) = 3

\* The model failed to load.
C16_WitnessLoad ==
    /\ ClassifierFailed
    /\ profile.response.kind = "fails to load"
    /\ Returned
    /\ profile.emotion_scores # EmptyDict

\* The text is long enough to be handed to classify_text, and classify_text
\* came back empty: the classifier answered nothing, failed, or was not asked
\* because the stripped text is shorter than 10 characters.
ClaimClassificationEmpty ==
    /\ Returned
    /\ synth.overview.len > 20
    /\ ClassifyText(synth.overview, profile.response) = EmptyDict

\* C17: when classification of a text longer than 20 characters yields an
\* empty mapping, the profile's confidence is the default 0.5 and not the
\* length-based value.
C17_EmptyClassificationDegradesConfidence ==
    ClaimClassificationEmpty => profile.confidence = 50

(***************************************************************************)
(* Boundary and scenario profiles, checked under SpecProfile               *)
(***************************************************************************)
ClaimNoSignal == synth.overview.len = 0 /\ synth.genres = <<>>

\* C18: create_emotion_profile with empty or absent text and an empty genre
\* list (and weights that can be normalised) returns, without error, the
\* all-default profile: no emotion scores, no dominant emotions, confidence
\* 0.5, catharsis 0, intensity 1.5 and comfort 2.0.
C18_NoSignalGivesDefaultProfile ==
    (Called /\ ClaimNoSignal /\ synth.nlp_weight + synth.genre_weight # 0) =>
        /\ Returned
        /\ profile.emotion_scores = EmptyDict
        /\ profile.dominant_emotions = <<>>
        /\ profile.confidence = 50
        /\ profile.catharsis_score = 0
        /\ profile.intensity_score = 15
        /\ profile.comfort_score = 20

\* The call was made with no text and no genre, under weights other than the
\* default ones, and returned.
C18_Witness ==
    /\ Returned
    /\ ClaimNoSignal
    /\ <<synth.nlp_weight, synth.genre_weight>> = <<10, 10>>
    /\ profile.classifier_calls = 0

ClaimScenarioB ==
    /\ synth.genres = <<"Horror", "Thriller">>
    /\ synth.overview.len = 0
    /\ <<synth.nlp_weight, synth.genre_weight>> = <<6, 4>>

ClaimIsDominant(c) == \E k \in DOMAIN profile.dominant_emotions : profile.dominant_emotions[k] = c

\* C19: genres ["Horror", "Thriller"] with absent text and the default weights
\* give a profile with controlled_fear and thrilling_tension both among the
\* dominant emotions and a comfort_score below 4.
C19_HorrorThrillerProfile ==
    (Called /\ ClaimScenarioB) =>
        /\ Returned
        /\ ClaimIsDominant("controlled_fear")
        /\ ClaimIsDominant("thrilling_tension")
        /\ profile.comfort_score < 40

\* The scenario was synthesized, from the genre channel alone.
C19_Witness ==
    /\ Returned
    /\ ClaimScenarioB
    /\ profile.classifier_calls = 0
    /\ Len(profile.dominant_emotions) = 3

(***************************************************************************)
(* Ranking of comfortable against tense items, checked under SpecScenario  *)
(***************************************************************************)
ClaimScenarioC ==
    /\ call.op = "recommend_by_mood"
    /\ call.current_mood = "stressed"
    /\ call.desired_feeling = "feel-good"
    /\ call.n = 3

ClaimHighComfortLowIntensity(row) == row.comfort_score > 60 /\ row.intensity_score < 40
ClaimLowComfortHighIntensity(row) == row.comfort_score < 40 /\ row.intensity_score > 60

\* The place of catalog row i in the returned list, 0 when it is not listed.
ClaimPlace(i) ==
    IF \E k \in 1..Len(result) : result[k].idx = i
    THEN CHOOSE k \in 1..Len(result) : result[k].idx = i
    ELSE 0

\* Row i is ranked before row j: wherever j is listed, i is listed earlier.
ClaimRankedBefore(i, j) == ClaimPlace(j) > 0 => (ClaimPlace(i) > 0 /\ ClaimPlace(i) < ClaimPlace(j))

\* How many of the categories of "feel-good" a row has among its dominant emotions.
ClaimFeelGoodMatches(row) ==
    Cardinality({ c \in { "pure_joy", "cozy_comfort", "romantic_warmth" } :
                    InSeq(c, row.dominant_emotions) })

\* C20 as stated: for recommend_by_mood('stressed', 'feel-good', 3) an item
\* with comfort > 6 and intensity < 4 is ranked before an item with comfort < 4
\* and intensity > 6, whatever dominant emotions the two carry.
C20_ComfortableRanksFirst ==
    ClaimScenarioC =>
        \A i, j \in 1..Len(movies_df) :
            (ClaimHighComfortLowIntensity(movies_df[i]) /\ ClaimLowComfortHighIntensity(movies_df[j]))
                => ClaimRankedBefore(i, j)

\* C20 amended: the comfortable item is ranked before the tense one when it
\* carries at least as many of the feel-good categories (pure_joy,
\* cozy_comfort, romantic_warmth) among its dominant emotions as the tense one.
C20_ComfortableRanksFirstOnEqualEmotions ==
    ClaimScenarioC =>
        \A i, j \in 1..Len(movies_df) :
            (/\ ClaimHighComfortLowIntensity(movies_df[i])
             /\ ClaimLowComfortHighIntensity(movies_df[j])
             /\ ClaimFeelGoodMatches(movies_df[i]) >= ClaimFeelGoodMatches(movies_df[j]))
                => ClaimRankedBefore(i, j)

\* A tense item that stands first in the catalog and matches a feel-good
\* category is listed, after a comfortable item that matches as many.
C20_Witness ==
    /\ ClaimScenarioC
    /\ \E i, j \in 1..Len(movies_df) :
          /\ j < i
          /\ ClaimHighComfortLowIntensity(movies_df[i])
          /\ ClaimLowComfortHighIntensity(movies_df[j])
          /\ ClaimFeelGoodMatches(movies_df[j]) = 1
          /\ ClaimFeelGoodMatches(movies_df[i]) >= 1
          /\ ClaimPlace(j) > 0
          /\ ClaimPlace(i) > 0 /\ ClaimPlace(i) < ClaimPlace(j)

(***************************************************************************)
(* The count of bulk_insert_movies, checked under SpecBulk                 *)
(***************************************************************************)
\* C21: bulk_insert_movies returns the number of input records whose insert
\* or update is persisted by its final commit: records without a tmdb_id are
\* not counted, and neither are records whose change a rollback undid.
C21_CountIsPersistedRecords ==
    db.pc = "returned" => db.count = Cardinality(db.pending)

(***************************************************************************)
(* Properties of the signal mappers, checked under SpecSignal              *)
(***************************************************************************)
Mapped == signal.fn = "map_to_categories" /\ "categories" \in signal.done

\* The scores of the labels of the input that the table sends to category c.
ClaimContributions(c) ==
    { signal.emotions[k][2] : k \in { j \in 1..Len(signal.emotions) :
                                        /\ signal.emotions[j][1] \in DOMAIN MODEL_TO_CATEGORY
                                        /\ MODEL_TO_CATEGORY[signal.emotions[j][1]] = c } }

ClaimLargest(S) == CHOOSE x \in S : \A y \in S : y <= x

\* C22: map_to_categories keeps for each category the maximum of the scores of
\* the labels that map to it, whatever the order the labels are visited in; a
\* category without such a label is absent.
C22_CategoryKeepsMaximum ==
    Mapped =>
        \A k \in 1..Len(EMOTION_CATEGORIES) :
            LET c == EMOTION_CATEGORIES[k]
            IN  IF ClaimContributions(c) = {}
                THEN c \notin DOMAIN signal.category_scores
                ELSE /\ c \in DOMAIN signal.category_scores
                     /\ signal.category_scores[c] = ClaimLargest(ClaimContributions(c))

\* Two labels of one category, the smaller score visited last.
C22_Witness ==
    /\ Mapped
    /\ Len(signal.emotions) = 2
    /\ signal.emotions[1][1] = "joy" /\ signal.emotions[1][2] = SUnit
    /\ signal.emotions[2][1] = "amusement" /\ signal.emotions[2][2] = 96
    /\ signal.category_scores = ("pure_joy" :> SUnit)

ClaimTaxonomy == { EMOTION_CATEGORIES[k] : k \in 1..Len(EMOTION_CATEGORIES) }

\* The labels of the input that have no table entry or are mapped to nothing.
ClaimDroppedLabels ==
    { signal.emotions[k][1] : k \in { j \in 1..Len(signal.emotions) :
          DictGet(MODEL_TO_CATEGORY, signal.emotions[j][1], "None") = "None" } }

\* C23: every key map_to_categories and get_genre_emotions return is one of the
\* 12 taxonomy identifiers; an input of labels without a table entry, or mapped
\* to nothing, gives the empty mapping.
C23_KeysAreTaxonomyIdentifiers ==
    /\ Cardinality(ClaimTaxonomy) = 12
    /\ DOMAIN signal.category_scores \subseteq ClaimTaxonomy
    /\ DOMAIN signal.genre_emotions \subseteq ClaimTaxonomy
    /\ (Mapped /\ Cardinality(ClaimDroppedLabels) = Len(signal.emotions))
          => signal.category_scores = EmptyDict

\* A label outside the table was dropped beside one that is mapped.
C23_Witness ==
    /\ Mapped
    /\ "bogus" \in ClaimDroppedLabels
    /\ Len(signal.emotions) = 2
    /\ Cardinality(DOMAIN signal.category_scores) = 1

\* The genre mapper returned the categories of two genres.
C23_WitnessGenres ==
    /\ signal.fn = "genres"
    /\ "emotions" \in signal.done
    /\ Cardinality(DOMAIN signal.genre_emotions) > 4

GenreEmotionsReturned == signal.fn = "genres" /\ "emotions" \in signal.done

\* The values the known genres of a list contribute to category c, in the
\* order of the list, in units of 1/SUnit.
ClaimValues(genres, c) ==
    LET known == SelectSeq(genres, LAMBDA g :
                    /\ LowerStrip(g) \in DOMAIN GENRE_EMOTION_MAP
                    /\ c \in DOMAIN GENRE_EMOTION_MAP[LowerStrip(g)])
    IN  [k \in 1..Len(known) |-> GENRE_EMOTION_MAP[LowerStrip(known[k])][c] * (SUnit \div 10)]

\* v1, then e replaced by (e + vk) / 2 for each later value.
RECURSIVE ClaimRunningAverage(_)
ClaimRunningAverage(values) ==
    IF Len(values) = 1 THEN values[1]
    ELSE (ClaimRunningAverage(SubSeq(values, 1, Len(values) - 1)) + values[Len(values)]) \div 2

ClaimReversed(values) == [k \in 1..Len(values) |-> values[Len(values) + 1 - k]]

\* C24: in get_genre_emotions the score of a category is the running average,
\* in input order, of the values the known genres of the input give it; a
\* category no known genre names is absent, and unknown genres add nothing.
C24_RunningAverageInInputOrder ==
    GenreEmotionsReturned =>
        \A k \in 1..Len(EMOTION_CATEGORIES) :
            LET c == EMOTION_CATEGORIES[k]
                values == ClaimValues(signal.genres, c)
            IN  IF values = <<>>
                THEN c \notin DOMAIN signal.genre_emotions
                ELSE /\ c \in DOMAIN signal.genre_emotions
                     /\ signal.genre_emotions[c] = ClaimRunningAverage(values)

\* Three genres name thrilling_tension (0.7, 0.9, 0.8): the result 0.8 is
\* neither their maximum nor their sum, and the reversed list gives another value.
C24_Witness ==
    /\ GenreEmotionsReturned
    /\ signal.genres = <<"Horror", "Thriller", "action">>
    /\ signal.genre_emotions["thrilling_tension"] = 8 * (SUnit \div 10)
    /\ signal.genre_emotions["thrilling_tension"]
          # ClaimRunningAverage(ClaimReversed(ClaimValues(signal.genres, "thrilling_tension")))
    /\ signal.genre_emotions["thrilling_tension"]
          # MaxSeq(ClaimValues(signal.genres, "thrilling_tension"))

\* How many genres of the input, once lowered and stripped, lie in a set.
ClaimCountIn(S) ==
    Cardinality({ k \in 1..Len(signal.genres) : LowerStrip(signal.genres[k]) \in S })

\* A fraction <<numerator, denominator>> equals total / n, or 5 when n = 0.
ClaimIsMean(fraction, total, n) ==
    IF n = 0 THEN fraction[1] = 5 * fraction[2]
    ELSE fraction[1] * n = total * fraction[2]

ClaimIntensityTotal ==
    LET high == ClaimCountIn(HIGH_INTENSITY)
        medium == ClaimCountIn(MEDIUM_INTENSITY)
        low == ClaimCountIn(LOW_INTENSITY)
    IN  8 * high + 5 * medium + 3 * low + 5 * (Len(signal.genres) - high - medium - low)

ClaimComfortTotal ==
    LET high == ClaimCountIn(HIGH_COMFORT)
        medium == ClaimCountIn(MEDIUM_COMFORT)
        low == ClaimCountIn(LOW_COMFORT)
    IN  8 * high + 5 * medium + 2 * low + 5 * (Len(signal.genres) - high - medium - low)

\* The input without the genres GENRE_EMOTION_MAP does not know.
ClaimKnownGenres ==
    SelectSeq(signal.genres, LAMBDA g : LowerStrip(g) \in DOMAIN GENRE_EMOTION_MAP)

\* C25: get_intensity_from_genres and get_comfort_from_genres return the mean,
\* over every genre of the list, of the genre's level (intensity 8/5/3, comfort
\* 8/5/2, 5 for a genre in none of the sets), and 5 for an empty list; a genre
\* outside GENRE_EMOTION_MAP is counted in these means and adds nothing to the
\* emotion distribution.
C25_GenreLevelsAreMeans ==
    /\ (signal.fn = "genres" /\ "intensity" \in signal.done)
          => ClaimIsMean(signal.intensity, ClaimIntensityTotal, Len(signal.genres))
    /\ (signal.fn = "genres" /\ "comfort" \in signal.done)
          => ClaimIsMean(signal.comfort, ClaimComfortTotal, Len(signal.genres))
    /\ GenreEmotionsReturned => signal.genre_emotions = GetGenreEmotions(ClaimKnownGenres)

\* An unknown genre beside Horror: intensity 6.5 and comfort 3.5 instead of
\* Horror's 8 and 2, and the emotion distribution of Horror alone.
C25_Witness ==
    /\ signal.fn = "genres"
    /\ signal.done = { "emotions", "intensity", "comfort" }
    /\ signal.genres = <<"Horror", "Noir">>
    /\ signal.intensity = <<13, 2>>
    /\ signal.comfort = <<7, 2>>
    /\ DOMAIN signal.genre_emotions = DOMAIN GENRE_EMOTION_MAP["horror"]

(***************************************************************************)
(* The derived scalars of a profile, checked under SpecProfile             *)
(***************************************************************************)
\* The retained score of a category in thousandths, 0 when it is absent.
ClaimScore(c) == IF c \in DOMAIN profile.emotion_scores THEN profile.emotion_scores[c] ELSE 0

ClaimMaxOver(S) == ClaimLargest({ ClaimScore(c) : c \in S })

\* score (tenths) is num / den (den > 0) rounded to the nearest tenth.
ClaimRoundsTo(score, num, den) == 2 * Abs(score * den - num) <= den

\* In tenths: 10 * (0.7 * max + 0.3 * g / 10) = (7 * max * gd + 300 * gn) / (100 * gd)
\* for scores in thousandths and the genre intensity g = gn / gd.
ClaimIntensity ==
    LET g == GetIntensityFromGenres(synth.genres)
        m == ClaimMaxOver({ "thrilling_tension", "controlled_fear", "righteous_anger", "mind_blown" })
    IN  <<7 * m * g[2] + 300 * g[1], 100 * g[2]>>

\* In tenths: 10 * (0.7 * max + 0.3 * sum / 4) = (28 * max + 3 * sum) / 400.
ClaimCatharsis ==
    LET m == ClaimMaxOver({ "cathartic_sadness", "bittersweet_hope", "triumphant_inspired",
                            "awe_wonder" })
        total == ClaimScore("cathartic_sadness") + ClaimScore("bittersweet_hope")
                 + ClaimScore("triumphant_inspired") + ClaimScore("awe_wonder")
    IN  <<28 * m + 3 * total, 400>>

\* In tenths: 10 * (0.6 * (C / 3 - 0.5 * D / 3) + 0.4 * g / 10)
\*    = ((2 * C - D) * gd + 400 * gn) / (100 * gd), then clamped to 0..100.
ClaimComfort ==
    LET g == GetComfortFromGenres(synth.genres)
        c == ClaimScore("pure_joy") + ClaimScore("cozy_comfort") + ClaimScore("romantic_warmth")
        d == ClaimScore("controlled_fear") + ClaimScore("thrilling_tension")
             + ClaimScore("cathartic_sadness")
        num == (2 * c - d) * g[2] + 400 * g[1]
        den == 100 * g[2]
    IN  IF num < 0 THEN <<0, 1>> ELSE IF num > 100 * den THEN <<100, 1>> ELSE <<num, den>>

\* C26: the intensity, catharsis and comfort of a returned profile are their
\* formulas over the retained combined scores (absent categories 0), rounded
\* to 1 decimal, comfort clamped to [0, 10].
C26_ScalarsAreTheirFormulas ==
    Returned =>
        /\ ClaimRoundsTo(profile.intensity_score, ClaimIntensity[1], ClaimIntensity[2])
        /\ ClaimRoundsTo(profile.catharsis_score, ClaimCatharsis[1], ClaimCatharsis[2])
        /\ ClaimRoundsTo(profile.comfort_score, ClaimComfort[1], ClaimComfort[2])

\* A classified text with genres: all three scalars carry a signal and the
\* comfort is not clamped.
C26_Witness ==
    /\ Returned
    /\ profile.response.kind = "answers"
    /\ Len(profile.dominant_emotions) = 3
    /\ profile.catharsis_score > 0
    /\ profile.comfort_score > 0 /\ profile.comfort_score < 100
    /\ ClaimMaxOver({ "thrilling_tension", "controlled_fear", "righteous_anger", "mind_blown" }) > 0
    /\ ClaimScore("pure_joy") > 0

\* The comfort formula falls below 0 and is clamped.
C26_WitnessClamped ==
    /\ Returned
    /\ profile.comfort_score = 0
    /\ LET g == GetComfortFromGenres(synth.genres)
       IN  (2 * (ClaimScore("pure_joy") + ClaimScore("cozy_comfort") + ClaimScore("romantic_warmth"))
              - (ClaimScore("controlled_fear") + ClaimScore("thrilling_tension")
                 + ClaimScore("cathartic_sadness"))) * g[2] + 400 * g[1] < 0

(***************************************************************************)
(* _make_request, checked under SpecRequest                                *)
(***************************************************************************)
ClaimLast(log) == log[Len(log)]

ClaimResponses(log) == Cardinality({ k \in 1..Len(log) : GotResponse(log[k]) })

\* What the claim says of a call, whatever its requests met.
ClaimRequestContract ==
    /\ Len(http.log) <= http.retries                     \* at most `retries` requests
    /\ http.pc # "raised"                                \* it ends by returning
    /\ http.requests_made = ClaimResponses(http.log)     \* one per response received
    /\ http.pc = "loop" => http.attempt = Len(http.log)  \* each failure used one attempt
    /\ http.pc = "returned" =>
          IF http.log # <<>> /\ ClaimLast(http.log) = "200 json"
          THEN http.returned = "json"
          ELSE IF http.log # <<>> /\ ClaimLast(http.log) = "404"
          THEN http.returned = "None"
          ELSE http.returned = "None" /\ Len(http.log) = http.retries
    /\ \A k \in 1..(Len(http.log) - 1) :                 \* nothing follows a JSON body or a 404
          http.log[k] \notin { "200 json", "404" }

\* C27: every _make_request call issues at most `retries` requests and returns:
\* the JSON body of the first successful response, None at once on a 404, None
\* when the attempts are used up, each 429, timeout and request error using
\* exactly one attempt; requests_made grows by one per response received.
C27_RequestReturnsWithinRetries == ClaimRequestContract

\* The requests of a call met only what TMDB documents: JSON bodies on 200 and
\* a Retry-After in seconds, or none, on 429.
ClaimDocumentedMeetings ==
    \A k \in 1..Len(http.log) : http.log[k] \notin { "200 not json", "429 date" }

\* For such calls the contract holds.
RequestContractOnDocumentedMeetings == ClaimDocumentedMeetings => ClaimRequestContract

\* Every call ends, by returning or by raising.
RequestTerminates == <>(http.pc \in { "returned", "raised" })

(***************************************************************************)
(* Catalog files with unprocessed rows, checked under SpecCatalogFile.     *)
(***************************************************************************)
ClaimHasUnprocessedRow ==
    \E i \in 1..Len(movies_df) : "emotion_processed" \in DOMAIN movies_df[i]

\* C28: for every catalog file written by process_movies_from_csv, rows left
\* unprocessed included, recommend_by_mood returns a list without raising.
C28_CatalogFileIsAlwaysScored == IsMoodCall => outcome = "ok"

\* The same statement for the files in which every row was processed.
C28_ProcessedCatalogIsScored ==
    (IsMoodCall /\ ~ClaimHasUnprocessedRow) => outcome = "ok"

\* recommend_by_mood was called on a file holding an unprocessed row.
C28_UnprocessedRowScored == IsMoodCall /\ ClaimHasUnprocessedRow

(***************************************************************************)
(* The first item of a journey, checked under SpecJourney.                 *)
(***************************************************************************)
\* The moods that are no desired feeling.
ClaimPresetOnlyMoods == DOMAIN MOOD_PRESETS \ DOMAIN DESIRED_FEELINGS

ClaimDefaultTargets == <<"pure_joy", "cozy_comfort">>

\* The score of row i for a mood when the targets are the default ones.
ClaimDefaultScore(i, mood) ==
    CalculateMatchScore(movies_df[i], MOOD_PRESETS[mood], ClaimDefaultTargets)

\* The first row among those of the highest default score.
ClaimDefaultBest(mood) ==
    CHOOSE i \in 1..Len(movies_df) :
        \A j \in 1..Len(movies_df) :
            \/ ClaimDefaultScore(i, mood) > ClaimDefaultScore(j, mood)
            \/ ClaimDefaultScore(i, mood) = ClaimDefaultScore(j, mood) /\ i <= j

ClaimSameButCase ==
    { f \in Feelings : Lower(f) = Lower(call.desired_feeling) /\ f # call.desired_feeling }

\* What recommend_by_mood returns for the call with another desired_feeling.
ClaimResultFor(feeling) ==
    RecommendByMoodList(movies_df, call.current_mood, feeling, call.n)

ClaimWithoutExplanation(recs) ==
    [k \in 1..Len(recs) |->
        <<recs[k].idx, recs[k].title, recs[k].match_score>>]

\* C30: two desired_feeling strings that differ only in letter case give, for
\* the same mood, n and catalog, the same items in the same order with the
\* same match scores and the same explanation texts.
C30_CaseOfFeelingIsIgnored ==
    IsMoodCall => \A f \in ClaimSameButCase : ClaimResultFor(f) = result

\* The same statement without the explanation texts.
C30_CaseOfFeelingIsIgnoredInRanking ==
    IsMoodCall => \A f \in ClaimSameButCase :
                     ClaimWithoutExplanation(ClaimResultFor(f)) = ClaimWithoutExplanation(result)

\* "Feel-Good" was asked for and an item was returned.
C30_CapitalisedFeelingAsked ==
    IsMoodCall /\ call.desired_feeling = "Feel-Good" /\ result # <<>>

====
